---- MODULE Spec2Model ----
(***************************************************************************)
(* Attack-chain optimizer of coh_dps_finder: the chain search              *)
(* (optimizeChains / searchChains), the feasibility filters, the           *)
(* steady-state chain simulator (simulateChainWithDefiance) and the buff   *)
(* overlay simulator (simulateChainWithBuffOverlay).                       *)
(*                                                                         *)
(* Numbers.  The program computes in IEEE doubles; the model computes in   *)
(* exact integer arithmetic:                                               *)
(*   - times are integer milliseconds (1 s = 1000), so the feasibility     *)
(*     tolerance 0.001 s is 1;                                             *)
(*   - buff scales and multipliers are integer thousandths (0.1 = 100,     *)
(*     multiplier 1.0 = 1000);                                             *)
(*   - a realized damage is base damage times multiplier, so it is in      *)
(*     thousandths of a damage point;                                      *)
(*   - a throughput (dps) is the pair <<damage, time>> and is compared as  *)
(*     an exact fraction (RatLT), never divided.                           *)
(***************************************************************************)
EXTENDS Integers, Sequences, FiniteSets, TLC

VARIABLES
    powers,              \* optimizeChains: powersWithRecharge (the attack list)
    buffPowers,          \* optimizeChains: preparedBuffs (the overlay actions)
    activationLatency,   \* optimizeChains: activationLatency, copied on every power
    topN,                \* optimizeChains: topN (after topN = topN || TOP_N)
    callee,              \* a function called on its own: which one
    callArgs,            \* its arguments, one entry per call to make
    returned,            \* what the calls made so far returned, in order
    pc,                  \* position of the running function
    len,                 \* optimizeChains: len
    combo,               \* searchChains: combo
    indices,             \* searchChains: indices
    bestDpsThisLength,   \* searchChains: bestDpsThisLength
    lengthResults,       \* searchChains: lengthResults
    results,             \* optimizeChains: results
    globalBestDps,       \* optimizeChains: globalBestDps
    unique,              \* optimizeChains: unique (what deduplicateChains returned)
    topChains,           \* optimizeChains: topChains (the returned list)
    outcome,             \* observation: what searchChains did with the last candidate
    skipped,             \* observation: lengths skipped by the combination ceiling
    checked,             \* searchChains: checked (candidates simulated, this length)
    chain,               \* simulateChainWithDefiance: chain
    filter,              \* searchChains: the two feasibility filters' answers for chain
    sim,                 \* simulateChainWithDefiance: its locals
    ov,                  \* simulateChainWithBuffOverlay: its locals
    runBtn,              \* main.js: the run button (its disabled flag)
    state,               \* main.js: state (worker, tables) and the progress of init()
    workers,             \* every Worker runOptimizer constructed, in order
    run                  \* main.js: the call of runOptimizer in progress

searchVars == <<pc, len, combo, indices, bestDpsThisLength, lengthResults, results,
                globalBestDps, topChains, outcome, skipped, checked>>
inputVars == <<powers, buffPowers, activationLatency, topN>>
callVars == <<callee, callArgs, returned>>
runVars == <<runBtn, state, workers, run>>
vars == <<powers, buffPowers, activationLatency, topN, callee, callArgs, returned, unique, pc, len, combo, indices,
          bestDpsThisLength, lengthResults, results, globalBestDps, topChains,
          outcome, skipped, checked, chain, filter, sim, ov, runBtn, state, workers, run>>

----------------------------------------------------------------------------
(* Program constants                                                       *)

MAX_CHAIN_LENGTH == 8
TOP_N == 5
DEFIANCE_WARMUP_CYCLES == 3
MAX_WAIT_RATIO == 3
MAX_RESULTS_PER_LENGTH == 500
MAX_COMBOS_PER_LENGTH == 2000000
\* 0.65, in percent
DPS_PRUNE_RATIO == 65
BUFF_WARMUP_CYCLES == 2
BUFF_MEASURE_CYCLES == 3

----------------------------------------------------------------------------
(* Arithmetic helpers                                                      *)

Max(a, b) == IF a > b THEN a ELSE b

RECURSIVE Pow(_, _)
\* Math.pow(numPowers, len), capped just above the ceiling so that it stays an
\* integer the checker can hold: only its comparison with the ceiling and the
\* values below the ceiling are used.
Pow(b, e) ==
    IF e = 0 THEN 1
    ELSE LET r == Pow(b, e - 1) IN
         IF r > MAX_COMBOS_PER_LENGTH THEN r ELSE r * b

RECURSIVE RatLT(_, _, _, _)
\* a/b < c/d for a, c >= 0 and b, d > 0, exactly and without products
\* (continued-fraction comparison).
RatLT(a, b, c, d) ==
    LET q1 == a \div b
        q2 == c \div d
        r1 == a % b
        r2 == c % d
    IN  IF q1 # q2 THEN q1 < q2
        ELSE IF r2 = 0 THEN FALSE
        ELSE IF r1 = 0 THEN TRUE
        ELSE RatLT(d, r2, b, r1)

\* dps values are pairs <<damage, time>>.  A pair of time 0 is what the
\* division gives in the code: Infinity when the damage is above 0 and NaN
\* when it is 0; x < y is false when x is Infinity and when either is NaN.
DpsLT(x, y) ==
    IF x[2] = 0 \/ y[2] = 0 THEN x[2] # 0 /\ y[1] > 0
    ELSE RatLT(x[1], x[2], y[1], y[2])
DpsLE(x, y) == ~DpsLT(y, x)
DpsEQ(x, y) == ~DpsLT(x, y) /\ ~DpsLT(y, x)
ZeroDps == <<0, 1>>

RECURSIVE SumTo(_, _)
\* nums.reduce((sum, x) => sum + x, 0) over the first n entries
SumTo(nums, n) == IF n = 0 THEN 0 ELSE SumTo(nums, n - 1) + nums[n]

SumOver(nums) == SumTo(nums, Len(nums))

----------------------------------------------------------------------------
(* Powers.  A power is the record the search consumes: slug, arcanaTime,   *)
(* effectiveRecharge, totalDamage and defiance {scale, duration, stacking}.*)
(* A power without Defiance data (defiance null/undefined) is modelled by  *)
(* scale 0, which the simulators treat the same way (scale > 0 is tested). *)

NoDefiance == [scale |-> 0, duration |-> 0, stacking |-> "Stack"]

Power(slug, arcana, recharge, damage, defiance) ==
    [slug |-> slug, arcanaTime |-> arcana, effectiveRecharge |-> recharge,
     totalDamage |-> damage, enduranceCost |-> 5, defiance |-> defiance]

\* The attack powers the inputs are drawn from (times in ms, scales in 1/1000).
PowerPool ==
    [A |-> Power("A", 1000, 2000, 10, NoDefiance),
     B |-> Power("B", 1000, 2000, 100,
                 [scale |-> 100, duration |-> 3000, stacking |-> "Stack"]),
     C |-> Power("C", 1000, 2500, 50,
                 [scale |-> 200, duration |-> 4000, stacking |-> "Replace"]),
     E |-> Power("E", 1000, 1001, 40, NoDefiance),
     H |-> Power("H", 1000, 1000, 40,
                 [scale |-> 400, duration |-> 10000, stacking |-> "Stack"]),
     L |-> Power("L", 2000, 20000, 300, NoDefiance),
     S |-> Power("S", 1000, 1000, 40,
                 [scale |-> 100, duration |-> 3000, stacking |-> "Stack"])]

Slugs == DOMAIN PowerPool

\* Attack powers only the inputs of the search draw: the two of the
\* end-to-end scenario (times in ms, scales in 1/1000, damage in 1/100), W, a
\* weak power that is always ready, and Z, a power that takes no time.
ScenarioPowers ==
    [W |-> Power("W", 1000, 1000, 12, NoDefiance),
     Z |-> Power("Z", 0, 0, 10, NoDefiance),
     Flares |-> Power("Flares", 1188, 4000, 6319,
                      [scale |-> 66, duration |-> 8500, stacking |-> "Stack"]),
     FireBlast |-> Power("FireBlast", 1848, 8000, 9500,
                         [scale |-> 110, duration |-> 9170, stacking |-> "Stack"])]

\* The activation latencies the inputs are drawn from (ms).
Latencies == {0, 100}

\* chain.map(p => p.slug)
SlugsOf(c) == [i \in 1..Len(c) |-> c[i].slug]

----------------------------------------------------------------------------
(* Feasibility filters                                                     *)

\* p.arcanaTime + latency
StepTime(p, latency) == p.arcanaTime + latency

\* chain.reduce((sum, p) => sum + p.arcanaTime + latency, 0)
CycleTime(c, latency) == SumOver([i \in 1..Len(c) |-> StepTime(c[i], latency)])

\* usagesBySlug[slug]: the {time, recharge} of each use of slug, in chain order;
\* time is the running sum timePos before the use.
Usages(c, latency, slug) ==
    LET times == [i \in 1..Len(c) |-> StepTime(c[i], latency)]
        use(i) == [time |-> SumTo(times, i - 1), recharge |-> c[i].effectiveRecharge]
        RECURSIVE build(_)
        build(n) ==
            IF n = 0 THEN <<>>
            ELSE IF c[n].slug = slug THEN Append(build(n - 1), use(n))
            ELSE build(n - 1)
    IN  build(Len(c))

\* The gap the loop computes for usages[i] (i is the 0-based index of the code).
UsageGap(usages, i, totalTime) ==
    LET nextIdx == (i + 1) % Len(usages) IN
    IF nextIdx > i
    THEN usages[nextIdx + 1].time - usages[i + 1].time
    ELSE (totalTime - usages[i + 1].time) + usages[nextIdx + 1].time

\* the mutants of isChainFeasible used by the checks below
IsChainFeasibleNoWrap(c, latency) ==
    \A slug \in {c[k].slug : k \in 1..Len(c)} :
        LET usages == Usages(c, latency, slug) IN
        \A i \in 0..(Len(usages) - 2) :
            ~(UsageGap(usages, i, CycleTime(c, latency)) < usages[i + 1].recharge - 1)

IsChainFeasibleNoTolerance(c, latency) ==
    \A slug \in {c[k].slug : k \in 1..Len(c)} :
        LET usages == Usages(c, latency, slug) IN
        \A i \in 0..(Len(usages) - 1) :
            ~(UsageGap(usages, i, CycleTime(c, latency)) < usages[i + 1].recharge)

\* isChainFeasible(chain); latency is chain[0].activationLatency
IsChainFeasible(c, latency) ==
    LET totalTime == CycleTime(c, latency) IN
    \A slug \in {c[k].slug : k \in 1..Len(c)} :
        LET usages == Usages(c, latency, slug) IN
        \A i \in 0..(Len(usages) - 1) :
            ~(UsageGap(usages, i, totalTime) < usages[i + 1].recharge - 1)

\* counts[slug] of isChainWorthSimulating: the number of uses and the recharge
\* of the first use
Counts(c, slug) ==
    LET at == {k \in 1..Len(c) : c[k].slug = slug}
        first == CHOOSE k \in at : \A j \in at : k <= j
    IN  [count |-> Cardinality(at), recharge |-> c[first].effectiveRecharge]

IsChainWorthSimulatingNoRatio(c, latency) ==
    \A slug \in {c[k].slug : k \in 1..Len(c)} :
        LET e == Counts(c, slug) IN
        e.count > 1 => ~(e.count * e.recharge > CycleTime(c, latency))

\* isChainWorthSimulating(chain)
IsChainWorthSimulating(c, latency) ==
    LET castTime == CycleTime(c, latency) IN
    \A slug \in {c[k].slug : k \in 1..Len(c)} :
        LET e == Counts(c, slug) IN
        e.count > 1 => ~(e.count * e.recharge > castTime * MAX_WAIT_RATIO)

----------------------------------------------------------------------------
(* simulateChainWithDefiance                                               *)

EmptyMap == [x \in {} |-> 0]

\* cooldowns[slug] || 0
ReadyAt(cooldowns, slug) == IF slug \in DOMAIN cooldowns THEN cooldowns[slug] ELSE 0

\* cooldowns[slug] = v
Put(m, k, v) == [x \in DOMAIN m \cup {k} |-> IF x = k THEN v ELSE m[x]]

\* activeBuffs.filter(b => b.expiresAt > currentTime)
ExpireKeepingDueBuffs(buffs, t) ==
    LET alive(b) == b.expiresAt >= t IN SelectSeq(buffs, alive)

ExpireBuffs(buffs, t) ==
    LET alive(b) == b.expiresAt > t IN SelectSeq(buffs, alive)

\* 1 + activeBuffs.reduce((sum, b) => sum + b.scale, 0), in thousandths
BuffMult(buffs) == 1000 + SumOver([k \in 1..Len(buffs) |-> buffs[k].scale])

ApplyBuffAlwaysStack(buffs, slug, d, t) ==
    IF d.scale > 0
    THEN Append(buffs, [slug |-> slug, scale |-> d.scale,
                        expiresAt |-> t + d.duration, stacking |-> d.stacking])
    ELSE buffs

\* "Apply this power's Defiance buff (if any)": the buff set after the power
\* slug with buff data d activates at time t
ApplyBuff(buffs, slug, d, t) ==
    LET newBuff == [slug |-> slug, scale |-> d.scale,
                    expiresAt |-> t + d.duration, stacking |-> d.stacking]
        others(b) == b.slug # slug
    IN  IF d.scale > 0
        THEN IF d.stacking = "Replace"
             THEN Append(SelectSeq(buffs, others), newBuff)
             ELSE Append(buffs, newBuff)
        ELSE buffs

ActivationTimeNoWait(cooldowns, currentTime, slug) == currentTime

\* "Wait for power to come off cooldown": the time at which the power activates
ActivationTime(cooldowns, currentTime, slug) ==
    IF ReadyAt(cooldowns, slug) > currentTime
    THEN ReadyAt(cooldowns, slug)
    ELSE currentTime

TotalCyclesShortWarmup == DEFIANCE_WARMUP_CYCLES - 1

\* const totalCycles = DEFIANCE_WARMUP_CYCLES + 1
TotalCycles == DEFIANCE_WARMUP_CYCLES + 1

\* The locals of simulateChainWithDefiance before the first activation.
\* cycle and i are the loop counters (i is 1-based here); trace is an
\* observation, not program state: one entry per activation of every pass.
SimInit ==
    [cycle |-> 0, i |-> 1, currentTime |-> 0, activeBuffs |-> <<>>,
     cooldowns |-> EmptyMap, measureDamage |-> <<>>, measureDefianceMult |-> <<>>,
     measureStartTime |-> 0, measureEvents |-> <<>>, trace |-> <<>>]

SimFinished(c, s) == s.cycle = TotalCycles

\* One iteration of the inner loop: the activation of chain[i] in pass cycle.
SimStep(c, latency, s) ==
    LET power == c[s.i]
        isMeasureCycle == s.cycle = TotalCycles - 1
        startsMeasure == isMeasureCycle /\ s.i = 1
        readyAt == ReadyAt(s.cooldowns, power.slug)
        waitBefore == IF readyAt > s.currentTime THEN readyAt - s.currentTime ELSE 0
        now == ActivationTime(s.cooldowns, s.currentTime, power.slug)
        measureStartTime == IF startsMeasure THEN s.currentTime ELSE s.measureStartTime
        alive == ExpireBuffs(s.activeBuffs, now)
        defianceMult == BuffMult(alive)
        effectiveDamage == power.totalDamage * defianceMult
        event == [slug |-> power.slug,
                  startTime |-> now - measureStartTime,
                  endTime |-> now - measureStartTime + power.arcanaTime,
                  waitBefore |-> waitBefore,
                  damage |-> effectiveDamage,
                  defianceMult |-> defianceMult]
        seen == [cycle |-> s.cycle, slug |-> power.slug, before |-> s.currentTime,
                 at |-> now, waitBefore |-> waitBefore, defianceMult |-> defianceMult,
                 damage |-> effectiveDamage, base |-> power.totalDamage,
                 recharge |-> power.effectiveRecharge,
                 after |-> now + power.arcanaTime + latency,
                 buff |-> power.defiance, held |-> alive]
        last == s.i = Len(c)
    IN  [cycle |-> IF last THEN s.cycle + 1 ELSE s.cycle,
         i |-> IF last THEN 1 ELSE s.i + 1,
         currentTime |-> now + power.arcanaTime + latency,
         activeBuffs |-> ApplyBuff(alive, power.slug, power.defiance, now),
         cooldowns |-> Put(s.cooldowns, power.slug, now + power.effectiveRecharge),
         measureDamage |->
            IF isMeasureCycle
            THEN Append(IF startsMeasure THEN <<>> ELSE s.measureDamage, effectiveDamage)
            ELSE s.measureDamage,
         measureDefianceMult |->
            IF isMeasureCycle
            THEN Append(IF startsMeasure THEN <<>> ELSE s.measureDefianceMult, defianceMult)
            ELSE s.measureDefianceMult,
         measureStartTime |-> measureStartTime,
         measureEvents |->
            IF isMeasureCycle
            THEN Append(IF startsMeasure THEN <<>> ELSE s.measureEvents, event)
            ELSE s.measureEvents,
         trace |-> Append(s.trace, seen)]

RECURSIVE SimRun(_, _, _)
\* The two nested loops run to their end from the locals s.
SimRun(c, latency, s) ==
    IF SimFinished(c, s) THEN s ELSE SimRun(c, latency, SimStep(c, latency, s))

\* The value simulateChainWithDefiance returns, from its final locals.
\* dps is the pair <<totalDamage, totalTime>>; avgDefianceMult the pair
\* <<sum of the multipliers, their number>>.
SimResult(s) ==
    LET totalDamage == SumOver(s.measureDamage)
        totalTime == s.currentTime - s.measureStartTime
    IN  [totalDamage |-> totalDamage,
         totalTime |-> totalTime,
         dps |-> <<totalDamage, totalTime>>,
         perPowerDamage |-> s.measureDamage,
         perPowerDefianceMult |-> s.measureDefianceMult,
         avgDefianceMult |-> <<SumOver(s.measureDefianceMult),
                               Len(s.measureDefianceMult)>>,
         events |-> s.measureEvents]

\* simulateChainWithDefiance(chain)
SimulateChainWithDefiance(c, latency) == SimResult(SimRun(c, latency, SimInit))

----------------------------------------------------------------------------
(* Results of searchChains                                                 *)

\* The object searchChains pushes for a simulated chain.  The display-only
\* fields name, castTime, rechargeTime and effectArea are left out; dpa is
\* the pair <<damage, arcanaTime>>, eps the pair <<endurance, totalTime>>.
MakeResult(c, simResult, length) ==
    [powers |-> [i \in 1..Len(c) |->
                    [slug |-> c[i].slug,
                     damage |-> simResult.perPowerDamage[i],
                     baseDamage |-> c[i].totalDamage,
                     arcanaTime |-> c[i].arcanaTime,
                     effectiveRecharge |-> c[i].effectiveRecharge,
                     enduranceCost |-> c[i].enduranceCost,
                     dpa |-> <<simResult.perPowerDamage[i], c[i].arcanaTime>>,
                     defianceBuff |-> simResult.perPowerDefianceMult[i],
                     defiance |-> c[i].defiance]],
     totalDamage |-> simResult.totalDamage,
     totalTime |-> simResult.totalTime,
     dps |-> simResult.dps,
     eps |-> <<SumOver([i \in 1..Len(c) |-> c[i].enduranceCost]), simResult.totalTime>>,
     length |-> length,
     avgDefianceBuff |-> simResult.avgDefianceMult,
     timeline |-> simResult.events]

----------------------------------------------------------------------------
(* simulateChainWithBuffOverlay                                            *)

\* buffInfos: an overlay (click buff) power with its damage buff resolved
BuffInfo(slug, arcana, recharge, scale, duration, stacking) ==
    [slug |-> slug, arcanaTime |-> arcana, effectiveRecharge |-> recharge,
     buffScale |-> scale, buffDuration |-> duration, buffStacking |-> stacking]

\* The overlay powers the inputs are drawn from (times in ms, scales in 1/1000).
BuffPool ==
    [Aim |-> BuffInfo("Aim", 1000, 4000, 500, 6000, "Replace"),
     BuildUp |-> BuffInfo("BuildUp", 1000, 3000, 300, 5000, "Stack")]

RECURSIVE MaxOver(_, _)
\* Math.max(...nums.slice(0, n))
MaxOver(nums, n) ==
    IF n = 1 THEN nums[1] ELSE Max(MaxOver(nums, n - 1), nums[n])

\* Math.max(...buffPowers.map(p => p.effectiveRecharge))
MaxBuffRecharge(buffs) ==
    MaxOver([k \in 1..Len(buffs) |-> buffs[k].effectiveRecharge], Len(buffs))

SimDuration(buffs) == MaxBuffRecharge(buffs) * (BUFF_WARMUP_CYCLES + BUFF_MEASURE_CYCLES)
MeasureStartTime(buffs) == MaxBuffRecharge(buffs) * BUFF_WARMUP_CYCLES

\* The locals of simulateChainWithBuffOverlay before the loop.  at is the place
\* in the loop body: "head" (the while test), "buff" (the for loop over
\* buffInfos, j the next one, 1-based), "attack", "done".  fired is an
\* observation, not program state: the last power fired and when.
OvInit(buffs) ==
    [at |-> "head", j |-> 1, isMeasuring |-> FALSE,
     currentTime |-> 0, chainIndex |-> 0, defianceBuffs |-> <<>>, clickBuffs |-> <<>>,
     buffCooldowns |-> [x \in {buffs[k].slug : k \in 1..Len(buffs)} |-> 0],
     attackCooldowns |-> EmptyMap,
     measureDamage |-> 0, measureStartActual |-> -1, clickBuffActiveTime |-> 0,
     fired |-> [kind |-> "none", slug |-> "", before |-> 0, at |-> 0, readyAt |-> 0,
                pool |-> <<>>]]

\* The loop test with measureStartActual set on every measuring pass.
OvHeadRestartsMeasure(buffs, o) ==
    IF o.currentTime < SimDuration(buffs)
    THEN LET isMeasuring == o.currentTime >= MeasureStartTime(buffs) IN
         [o EXCEPT !.at = "buff", !.j = 1, !.isMeasuring = isMeasuring,
                   !.measureStartActual =
                       IF isMeasuring THEN o.currentTime ELSE o.measureStartActual]
    ELSE [o EXCEPT !.at = "done"]

\* The loop test with isMeasuring true from the first pass on.
OvHeadAlwaysMeasuring(buffs, o) ==
    IF o.currentTime < SimDuration(buffs)
    THEN [o EXCEPT !.at = "buff", !.j = 1, !.isMeasuring = TRUE,
                   !.measureStartActual =
                       IF o.measureStartActual < 0
                       THEN o.currentTime ELSE o.measureStartActual]
    ELSE [o EXCEPT !.at = "done"]

\* while (currentTime < simDuration) { isMeasuring ...; measureStartActual ... }
OvHead(buffs, o) ==
    IF o.currentTime < SimDuration(buffs)
    THEN LET isMeasuring == o.currentTime >= MeasureStartTime(buffs) IN
         [o EXCEPT !.at = "buff", !.j = 1, !.isMeasuring = isMeasuring,
                   !.measureStartActual =
                       IF isMeasuring /\ o.measureStartActual < 0
                       THEN o.currentTime ELSE o.measureStartActual]
    ELSE [o EXCEPT !.at = "done"]

\* clickBuffs after buff fires, its cast ending at time t
ApplyClickBuff(clickBuffs, buff, t) ==
    LET others(b) == b.slug # buff.slug
        kept == IF buff.buffStacking = "Replace"
                THEN SelectSeq(clickBuffs, others) ELSE clickBuffs
    IN  Append(kept, [slug |-> buff.slug, scale |-> buff.buffScale,
                      expiresAt |-> t + buff.buffDuration])

\* One iteration of "for (const buff of buffInfos)": buffInfos[j] fires if ready.
OvBuff(buffs, latency, o) ==
    LET buff == buffs[o.j]
        next == IF o.j = Len(buffs) THEN "attack" ELSE "buff"
    IN  IF o.buffCooldowns[buff.slug] <= o.currentTime /\ buff.buffScale > 0
        THEN LET t == o.currentTime + buff.arcanaTime + latency IN
             [o EXCEPT !.at = next, !.j = o.j + 1,
                       !.currentTime = t,
                       !.clickBuffs = ApplyClickBuff(o.clickBuffs, buff, t),
                       !.buffCooldowns[buff.slug] = t + buff.effectiveRecharge,
                       !.fired = [kind |-> "buff", slug |-> buff.slug,
                                  before |-> o.currentTime, at |-> o.currentTime,
                                  readyAt |-> o.buffCooldowns[buff.slug],
                                  pool |-> o.clickBuffs]]
        ELSE [o EXCEPT !.at = next, !.j = o.j + 1,
                       !.fired = [kind |-> "none", slug |-> buff.slug,
                                  before |-> o.currentTime, at |-> o.currentTime,
                                  readyAt |-> o.buffCooldowns[buff.slug],
                                  pool |-> o.clickBuffs]]

\* "Fire next attack in chain": the rest of the loop body.
OvAttack(chainPowers, latency, o) ==
    LET power == chainPowers[(o.chainIndex % Len(chainPowers)) + 1]
        now == ActivationTime(o.attackCooldowns, o.currentTime, power.slug)
        defianceBuffs == ExpireBuffs(o.defianceBuffs, now)
        clickBuffs == ExpireBuffs(o.clickBuffs, now)
        defianceBonus == SumOver([k \in 1..Len(defianceBuffs) |-> defianceBuffs[k].scale])
        clickBuffBonus == SumOver([k \in 1..Len(clickBuffs) |-> clickBuffs[k].scale])
        totalMult == 1000 + defianceBonus + clickBuffBonus
        effectiveDamage == power.baseDamage * totalMult
        attackTime == power.arcanaTime + latency
        applied == ApplyBuff(defianceBuffs, power.slug, power.defiance, now)
    IN  [o EXCEPT !.at = "head",
                  !.chainIndex = o.chainIndex + 1,
                  !.currentTime = now + attackTime,
                  \* the overlay's defiance instances carry no stacking field
                  !.defianceBuffs = [k \in 1..Len(applied) |->
                                        [slug |-> applied[k].slug,
                                         scale |-> applied[k].scale,
                                         expiresAt |-> applied[k].expiresAt]],
                  !.clickBuffs = clickBuffs,
                  !.attackCooldowns = Put(o.attackCooldowns, power.slug,
                                          now + power.effectiveRecharge),
                  !.measureDamage = IF o.isMeasuring
                                    THEN o.measureDamage + effectiveDamage
                                    ELSE o.measureDamage,
                  !.clickBuffActiveTime =
                      IF o.isMeasuring /\ clickBuffBonus > 0
                      THEN o.clickBuffActiveTime + attackTime
                      ELSE o.clickBuffActiveTime,
                  !.fired = [kind |-> "attack", slug |-> power.slug,
                             before |-> o.currentTime, at |-> now,
                             readyAt |-> ReadyAt(o.attackCooldowns, power.slug),
                             pool |-> defianceBuffs]]

\* The loop body without its second half: no attack is fired.
OvStepSkipsAttack(chainPowers, buffs, latency, o) ==
    IF o.at = "head" THEN OvHead(buffs, o)
    ELSE IF o.at = "buff" THEN OvBuff(buffs, latency, o)
    ELSE [o EXCEPT !.at = "head"]

\* The next step of the loop from the locals o.
OvStep(chainPowers, buffs, latency, o) ==
    IF o.at = "head" THEN OvHead(buffs, o)
    ELSE IF o.at = "buff" THEN OvBuff(buffs, latency, o)
    ELSE OvAttack(chainPowers, latency, o)

RECURSIVE OvRun(_, _, _, _)
OvRun(chainPowers, buffs, latency, o) ==
    IF o.at = "done" THEN o
    ELSE OvRun(chainPowers, buffs, latency, OvStep(chainPowers, buffs, latency, o))

\* The value simulateChainWithBuffOverlay returns, from its final locals:
\* dpsWithBuffs and buffUptime as pairs <<numerator, totalMeasureTime>>.
\* avgBuffMult = 1 + totalClickScale * buffUptime is the pair
\* <<totalMeasureTime * 1000 + totalClickScale * clickBuffActiveTime,
\*   totalMeasureTime>> in thousandths.
OvResult(chainResult, buffs, o) ==
    LET totalMeasureTime ==
            o.currentTime - (IF o.measureStartActual >= 0
                             THEN o.measureStartActual ELSE MeasureStartTime(buffs))
        totalClickScale == SumOver([k \in 1..Len(buffs) |-> buffs[k].buffScale])
    IN  [dpsWithBuffs |-> IF totalMeasureTime > 0
                          THEN <<o.measureDamage, totalMeasureTime>>
                          ELSE chainResult.dps,
         buffUptime |-> IF totalMeasureTime > 0
                        THEN <<o.clickBuffActiveTime, totalMeasureTime>>
                        ELSE <<0, 1>>,
         avgBuffMult |-> IF totalMeasureTime > 0
                         THEN <<totalMeasureTime * 1000
                                  + totalClickScale * o.clickBuffActiveTime,
                                totalMeasureTime>>
                         ELSE <<1000, 1>>]

\* simulateChainWithBuffOverlay(chainResult, buffPowers, activationLatency)
SimulateChainWithBuffOverlay(chainResult, buffs, latency) ==
    IF Len(buffs) = 0
    THEN [dpsWithBuffs |-> chainResult.dps, buffUptime |-> <<0, 1>>,
          avgBuffMult |-> <<1000, 1>>]
    ELSE OvResult(chainResult, buffs,
                  OvRun(chainResult.powers, buffs, latency, OvInit(buffs)))

----------------------------------------------------------------------------
(* Ranking: sort, deduplicate, rotate                                      *)

\* (r.buffedDps || r.dps): a buffedDps of 0 is falsy
RankingValue(r) ==
    IF "buffedDps" \in DOMAIN r /\ r.buffedDps[1] # 0 THEN r.buffedDps ELSE r.dps

ResultDps(r) == r.dps

\* The key of the two sorts of optimizeChains: "dps" for b.dps - a.dps,
\* "buffed" for (b.buffedDps || b.dps) - (a.buffedDps || a.dps).
KeyOf(by, r) == IF by = "buffed" THEN RankingValue(r) ELSE ResultDps(r)

RECURSIVE CountAbove(_, _, _, _, _)
\* The number of entries of the descending sequence b whose key is above v
\* (binary search: entries 1..lo are above v, entries after hi are not).
CountAbove(by, b, v, lo, hi) ==
    IF lo = hi THEN lo
    ELSE IF DpsLT(v, KeyOf(by, b[(lo + hi + 1) \div 2]))
         THEN CountAbove(by, b, v, (lo + hi + 1) \div 2, hi)
         ELSE CountAbove(by, b, v, lo, ((lo + hi + 1) \div 2) - 1)

RECURSIVE FromFirst(_, _, _, _, _, _)
\* The number of entries of a among the first k entries of the stable merge
\* of the descending sequences a and b (an entry of a goes before the entries
\* of b of the same key): the greatest i with i + CountAbove(b, a[i]) <= k
\* (binary search: lo is such an i or 0, no i above hi is).
FromFirst(by, a, b, k, lo, hi) ==
    IF lo = hi THEN lo
    ELSE IF ((lo + hi + 1) \div 2)
              + CountAbove(by, b, KeyOf(by, a[(lo + hi + 1) \div 2]), 0, Len(b)) <= k
         THEN FromFirst(by, a, b, k, (lo + hi + 1) \div 2, hi)
         ELSE FromFirst(by, a, b, k, lo, ((lo + hi + 1) \div 2) - 1)

\* The k-th entry of the merge, t of whose first k entries come from a.
MergeEntry(by, a, b, k, t) ==
    IF t > 0 /\ t + CountAbove(by, b, KeyOf(by, a[t]), 0, Len(b)) = k
    THEN a[t] ELSE b[k - t]

\* The stable merge of the descending sequences a and b.
MergeDesc(by, a, b) ==
    SubSeq([k \in 1..(Len(a) + Len(b)) |->
               MergeEntry(by, a, b, k, FromFirst(by, a, b, k, 0, Len(a)))],
           1, Len(a) + Len(b))

RECURSIVE SortDesc(_, _)
\* arr.sort((a, b) => key(b) - key(a)): descending by the key by and stable
\* (entries of equal key keep their order), as a merge sort.  The halves are
\* bound by the set constructor so that each is sorted once.
SortDesc(by, s) ==
    IF Len(s) <= 1 THEN s
    ELSE CHOOSE merged \in
             {MergeDesc(by, a, b) :
                 a \in {SortDesc(by, SubSeq(s, 1, Len(s) \div 2))},
                 b \in {SortDesc(by, SubSeq(s, (Len(s) \div 2) + 1, Len(s)))}} : TRUE

\* The order String.prototype comparison gives the slugs of the model.
SlugOrder ==
    <<"A", "AB", "B", "C", "D", "E", "F", "FireBlast",
      "Flares", "G", "H", "I", "J", "K", "L", "M",
      "N", "O", "P", "Q", "R", "S", "T", "U", "V", "W", "X", "Y", "Z">>

RECURSIVE RunsFrom(_, _)
\* The slugs of s in ascending order from the r-th slug of SlugOrder on: equal
\* strings are indistinguishable, so the sorted array is the run of each slug
\* in turn, as long as the slug occurs in s.
RunsFrom(s, r) ==
    IF r > Len(SlugOrder) THEN <<>>
    ELSE [i \in 1..Cardinality({j \in DOMAIN s : s[j] = SlugOrder[r]}) |-> SlugOrder[r]]
         \o RunsFrom(s, r + 1)

\* arr.slice().sort() on slugs
SortSlugs(s) == RunsFrom(s, 1)

\* minimalRepeatingUnit(arr) that never finds a repetition
MinimalRepeatingUnitWhole(arr) == arr

\* minimalRepeatingUnit(arr)
MinimalRepeatingUnit(arr) ==
    LET n == Len(arr)
        isRepeat(l) == n % l = 0 /\ \A i \in l..(n - 1) : arr[i + 1] = arr[(i % l) + 1]
        units == {l \in 1..(n \div 2) : isRepeat(l)}
    IN  IF units = {} THEN arr
        ELSE SubSeq(arr, 1, CHOOSE l \in units : \A m \in units : l <= m)

RECURSIVE JoinNoSeparator(_)
\* strs.join('') (the separator forgotten)
JoinNoSeparator(strs) ==
    IF Len(strs) = 0 THEN ""
    ELSE IF Len(strs) = 1 THEN strs[1]
    ELSE JoinNoSeparator(SubSeq(strs, 1, Len(strs) - 1)) \o strs[Len(strs)]

RECURSIVE Join(_)
\* strs.join(',')
Join(strs) ==
    IF Len(strs) = 0 THEN ""
    ELSE IF Len(strs) = 1 THEN strs[1]
    ELSE Join(SubSeq(strs, 1, Len(strs) - 1)) \o "," \o strs[Len(strs)]

\* normalizeChainKey(slugs): the sorted minimal unit, joined
NormalizeChainKey(slugs) ==
    CHOOSE key \in {Join(SortSlugs(unit)) : unit \in {MinimalRepeatingUnit(slugs)}} : TRUE

\* chain.powers.map(p => p.slug)
SlugsOfResult(r) == [i \in 1..Len(r.powers) |-> r.powers[i].slug]

\* One pass of the loop without seen.add(key).
DedupOneForgetsKey(d, entry) ==
    CHOOSE next \in
        {IF key \in d.seen THEN d
         ELSE [seen |-> d.seen, unique |-> Append(d.unique, entry)] :
            key \in {NormalizeChainKey(SlugsOfResult(entry))}} : TRUE

\* One pass of the loop of deduplicateChains: d holds the keys seen and the
\* entries kept so far.
DedupOne(d, entry) ==
    CHOOSE next \in
        {IF key \in d.seen THEN d
         ELSE [seen |-> d.seen \cup {key}, unique |-> Append(d.unique, entry)] :
            key \in {NormalizeChainKey(SlugsOfResult(entry))}} : TRUE

RECURSIVE DedupOver(_, _, _, _)
\* The passes of the loop over entries lo..hi of chains in order, from d (the
\* range is halved, and the first half's outcome bound by the set constructor,
\* so that the nesting stays logarithmic in the length).
DedupOver(chains, lo, hi, d) ==
    IF lo > hi THEN d
    ELSE IF lo = hi THEN DedupOne(d, chains[lo])
    ELSE CHOOSE after \in
             {DedupOver(chains, ((lo + hi) \div 2) + 1, hi, half) :
                 half \in {DedupOver(chains, lo, (lo + hi) \div 2, d)}} : TRUE

\* deduplicateChains(chains)
DeduplicateChains(chains) ==
    DedupOver(chains, 1, Len(chains), [seen |-> {}, unique |-> <<>>]).unique

RECURSIVE BestIdxFromLastOnTies(_, _, _)
\* the loop with >= for >: the last of the highest dpa wins
BestIdxFromLastOnTies(ps, i, bestIdx) ==
    IF i >= Len(ps) THEN bestIdx
    ELSE IF DpsLE(ps[bestIdx + 1].dpa, ps[i + 1].dpa)
         THEN BestIdxFromLastOnTies(ps, i + 1, i)
         ELSE BestIdxFromLastOnTies(ps, i + 1, bestIdx)

RECURSIVE BestIdxFrom(_, _, _)
\* the loop of rotateChainToHighestDpa: bestIdx (0-based) after index i
BestIdxFrom(ps, i, bestIdx) ==
    IF i >= Len(ps) THEN bestIdx
    ELSE IF DpsLT(ps[bestIdx + 1].dpa, ps[i + 1].dpa)
         THEN BestIdxFrom(ps, i + 1, i)
         ELSE BestIdxFrom(ps, i + 1, bestIdx)

\* arr.slice(k).concat(arr.slice(0, k))
RotateSeq(arr, k) == SubSeq(arr, k + 1, Len(arr)) \o SubSeq(arr, 1, k)

\* the result rotated to start at bestIdx (0-based), timeline included
RotateTo(r, bestIdx) ==
    IF bestIdx = 0 THEN r
    ELSE [r EXCEPT !.powers = RotateSeq(r.powers, bestIdx),
                   !.timeline = IF Len(r.timeline) = Len(r.powers)
                                THEN RotateSeq(r.timeline, bestIdx)
                                ELSE r.timeline]

\* rotateChainToHighestDpa(chain)
RotateChainToHighestDpa(r) ==
    IF Len(r.powers) <= 1 THEN r
    ELSE RotateTo(r, BestIdxFrom(r.powers, 1, 0))

\* unique.slice(0, topN)
Take(s, n) == SubSeq(s, 1, IF Len(s) < n THEN Len(s) ELSE n)

\* chain.buffedDps = ...; chain.buffUptime = ...; chain.avgBuffMult = ...
Annotate(r, overlay) ==
    [x \in DOMAIN r \cup {"buffedDps", "buffUptime", "avgBuffMult"} |->
        IF x = "buffedDps" THEN overlay.dpsWithBuffs
        ELSE IF x = "buffUptime" THEN overlay.buffUptime
        ELSE IF x = "avgBuffMult" THEN overlay.avgBuffMult
        ELSE r[x]]

WithOverlay(r, buffs, latency) ==
    CHOOSE annotated \in
        {Annotate(r, overlay) :
            overlay \in {SimulateChainWithBuffOverlay(r, buffs, latency)}} : TRUE

\* The tail of optimizeChains, from the merged results to the returned list.
RankTop(top, buffs, latency) ==
    IF Len(buffs) > 0
    THEN SortDesc("buffed",
                  [k \in 1..Len(top) |->
                      WithOverlay(RotateChainToHighestDpa(top[k]), buffs, latency)])
    ELSE [k \in 1..Len(top) |-> RotateChainToHighestDpa(top[k])]

\* results.sort((a, b) => b.dps - a.dps) (in place), unique and topChains
RankResults(merged, buffs, latency, nTop) ==
    CHOOSE ranked \in
        UNION {{[results |-> sorted, unique |-> kept,
                 topChains |-> RankTop(Take(kept, nTop), buffs, latency)] :
                    kept \in {DeduplicateChains(sorted)}} :
               sorted \in {SortDesc("dps", merged)}} : TRUE

----------------------------------------------------------------------------
(* searchChains and optimizeChains                                         *)

RECURSIVE DecodeFrom(_, _, _, _)
\* for (i = length - 1; i >= 0; i--) { indices[i] = temp % n; temp = floor(temp / n) }
\* (i counts the digits still to write; the digit written is the 1-based i)
DecodeFrom(temp, i, numPowers, acc) ==
    IF i = 0 THEN acc
    ELSE DecodeFrom(temp \div numPowers, i - 1, numPowers,
                    [acc EXCEPT ![i] = temp % numPowers])

DecodeComboNoCarry(c, length, numPowers) ==
    [i \in 1..length |-> c % numPowers]

\* the indices searchChains decodes from combo
DecodeCombo(c, length, numPowers) ==
    DecodeFrom(c, length, numPowers, [i \in 1..length |-> 0])

\* indices.map(i => powers[i])
ChainOf(ps, idx) == [i \in 1..Len(idx) |-> ps[idx[i] + 1]]

\* (totalDamage * 1.3) / totalCastTime, as a pair, in thousandths of damage per ms
UpperBoundDps(c) ==
    <<SumOver([i \in 1..Len(c) |-> c[i].totalDamage]) * 1300,
      SumOver([i \in 1..Len(c) |-> c[i].arcanaTime])>>

\* bestDpsThisLength * DPS_PRUNE_RATIO
PruneLineNoRatio(best) == best

PruneLine(best) == <<best[1] * DPS_PRUNE_RATIO, best[2] * 100>>

NoOutcome ==
    [kind |-> "none", length |-> 0, indices |-> <<>>, bound |-> ZeroDps,
     best |-> ZeroDps, checked |-> 0, held |-> 0, dps |-> ZeroDps]

\* "Periodic pruning": lengthResults and bestDpsThisLength after the push
Truncate(pushed, raised) ==
    IF Len(pushed) >= MAX_RESULTS_PER_LENGTH * 2
    THEN CHOOSE cut \in
             {[held |-> Take(sorted, MAX_RESULTS_PER_LENGTH), best |-> sorted[1].dps] :
                 sorted \in {SortDesc("dps", pushed)}} : TRUE
    ELSE [held |-> pushed, best |-> raised]

\* searchChains from "const simResult = ..." to the end of the iteration
AfterSimulation(c, simResult, best, held, nChecked, length, nTop, seen) ==
    IF DpsLT(simResult.dps, PruneLine(best)) /\ Len(held) >= nTop
    THEN [best |-> best, held |-> held, checked |-> nChecked + 1,
          outcome |-> [seen EXCEPT !.kind = "uncompetitive", !.dps = simResult.dps]]
    ELSE Truncate(Append(held, MakeResult(c, simResult, length)),
                  IF DpsLT(best, simResult.dps) THEN simResult.dps ELSE best)
         @@ [checked |-> nChecked + 1,
             outcome |-> [seen EXCEPT !.kind = "pushed", !.dps = simResult.dps]]

\* What one iteration of the loop of searchChains does with the candidate c,
\* from bestDpsThisLength, lengthResults and checked: the new values of the
\* three, and what was decided (outcome, an observation).
Evaluate(c, latency, best, held, nChecked, length, nTop) ==
    LET seen == [NoOutcome EXCEPT !.length = length, !.bound = UpperBoundDps(c),
                                  !.best = best, !.checked = nChecked,
                                  !.held = Len(held)]
        same == [best |-> best, held |-> held, checked |-> nChecked]
    IN  IF best[1] > 0 /\ DpsLT(UpperBoundDps(c), PruneLine(best))
        THEN same @@ [outcome |-> [seen EXCEPT !.kind = "bound"]]
        ELSE IF ~IsChainFeasible(c, latency) /\ ~IsChainWorthSimulating(c, latency)
        THEN same @@ [outcome |-> [seen EXCEPT !.kind = "filtered"]]
        ELSE CHOOSE after \in
                 {AfterSimulation(c, simResult, best, held, nChecked, length, nTop, seen) :
                     simResult \in {SimulateChainWithDefiance(c, latency)}} : TRUE

\* Math.pow(numPowers, len)
TotalCombos == Pow(Len(powers), len)

\* optimizeChains: "if (!powers || powers.length === 0) return []"
Start ==
    /\ pc = "start"
    /\ IF Len(powers) = 0
       THEN pc' = "done" /\ topChains' = <<>>
       ELSE pc' = "length" /\ UNCHANGED topChains
    /\ UNCHANGED <<len, combo, indices, bestDpsThisLength, lengthResults, results,
                   globalBestDps, outcome, skipped, checked>>
    /\ UNCHANGED <<runVars, inputVars, callVars, unique, chain, filter, sim, ov>>

\* optimizeChains: the head of one iteration of the loop over len, up to the
\* call of searchChains (whose locals are initialised), or the skip.
StartLength ==
    /\ pc = "length"
    /\ len <= MAX_CHAIN_LENGTH
    /\ IF TotalCombos > MAX_COMBOS_PER_LENGTH
       THEN /\ skipped' = skipped \cup {len}
            /\ len' = len + 1
            /\ UNCHANGED <<pc, combo, indices, bestDpsThisLength, lengthResults, checked>>
       ELSE /\ pc' = "search"
            /\ combo' = 0
            /\ indices' = [i \in 1..len |-> 0]
            /\ bestDpsThisLength' = globalBestDps
            /\ lengthResults' = <<>>
            /\ checked' = 0
            /\ UNCHANGED <<len, skipped>>
    /\ UNCHANGED <<results, globalBestDps, topChains, outcome>>
    /\ UNCHANGED <<runVars, inputVars, callVars, unique, chain, filter, sim, ov>>

\* searchChains: the decoding at the head of one iteration of the loop over combo
Decode ==
    /\ pc = "search"
    /\ combo < TotalCombos
    /\ indices' = DecodeCombo(combo, len, Len(powers))
    /\ combo' = combo + 1

\* searchChains: one whole iteration of the loop over combo
SearchStep ==
    /\ Decode
    /\ \E e \in {Evaluate(ChainOf(powers, indices'), activationLatency,
                         bestDpsThisLength, lengthResults, checked, len, topN)} :
           /\ chain' = ChainOf(powers, indices')
           /\ bestDpsThisLength' = e.best
           /\ lengthResults' = e.held
           /\ checked' = e.checked
           /\ outcome' = [e.outcome EXCEPT !.indices = indices']
    /\ UNCHANGED <<pc, len, results, globalBestDps, topChains, skipped>>
    /\ UNCHANGED <<runVars, inputVars, callVars, unique, filter, sim, ov>>

\* searchChains returns; optimizeChains merges its chains and raises globalBestDps
FinishLength ==
    /\ pc = "search"
    /\ combo = TotalCombos
    /\ results' = results \o lengthResults
    /\ globalBestDps' = IF DpsLT(globalBestDps, bestDpsThisLength)
                        THEN bestDpsThisLength ELSE globalBestDps
    /\ len' = len + 1
    /\ pc' = "length"
    /\ UNCHANGED <<combo, indices, bestDpsThisLength, lengthResults, topChains,
                   outcome, skipped, checked>>
    /\ UNCHANGED <<runVars, inputVars, callVars, unique, chain, filter, sim, ov>>

\* optimizeChains after the loop: sort, deduplicate, take topN, rotate, overlay
Finish ==
    /\ pc = "length"
    /\ len > MAX_CHAIN_LENGTH
    /\ \E ranked \in {RankResults(results, buffPowers, activationLatency, topN)} :
           /\ results' = ranked.results
           /\ unique' = ranked.unique
           /\ topChains' = ranked.topChains
    /\ pc' = "done"
    /\ UNCHANGED <<len, combo, indices, bestDpsThisLength, lengthResults,
                   globalBestDps, outcome, skipped, checked>>
    /\ UNCHANGED <<runVars, inputVars, callVars, chain, filter, sim, ov>>

PoolPowers(ss) == [i \in 1..Len(ss) |-> (PowerPool @@ ScenarioPowers)[ss[i]]]
PoolBuffs(ss) == [i \in 1..Len(ss) |-> BuffPool[ss[i]]]

\* The topN of the AoE pass of self.onmessage: optimizeChains(..., 10)
AOE_TOP_N == 10

\* The searches run: <<attack slugs, overlay slugs, latency, topN>>
SearchInputs ==
    {<<<<>>, <<>>, 0, TOP_N>>,
     <<<<"H">>, <<>>, 0, TOP_N>>,
     <<<<"S">>, <<>>, 0, TOP_N>>,
     <<<<"L">>, <<>>, 100, TOP_N>>,
     <<<<"C">>, <<"Aim">>, 0, TOP_N>>,
     <<<<"B", "A">>, <<>>, 0, TOP_N>>,
     <<<<"A", "B">>, <<>>, 0, TOP_N>>,
     <<<<"A", "B">>, <<>>, 0, AOE_TOP_N>>,
     <<<<"A", "B">>, <<"Aim", "BuildUp">>, 100, TOP_N>>,
     <<<<"E", "L">>, <<>>, 0, TOP_N>>,
     <<<<"C", "S">>, <<>>, 0, TOP_N>>,
     <<<<"C", "S">>, <<"BuildUp", "Aim">>, 0, TOP_N>>,
     <<<<"Flares", "FireBlast">>, <<>>, 0, TOP_N>>,
     <<<<"L", "W">>, <<"BuildUp">>, 0, AOE_TOP_N>>,
     <<<<"Z">>, <<>>, 0, TOP_N>>}

----------------------------------------------------------------------------
(* One page session: init() loading the data, the click listener calling   *)
(* runOptimizer, the Worker it constructs and the worker's self.onmessage. *)

\* Clicks on the run button in one session.
MaxRuns == 2

\* What runOptimizer can send: attack lists (each power ranged or melee),
\* overlay lists (each power by the table of its buff entry; "undefined" is
\* an entry without a table) and the value of the targets slider.
AttackLists == {<<>>, <<[isMelee |-> FALSE]>>, <<[isMelee |-> TRUE]>>}

BuffLists == {<<>>, <<[table |-> "Ranged_Buff_Dmg"]>>, <<[table |-> "undefined"]>>}

Requests == [powers : AttackLists, buffPowers : BuffLists, numTargets : {1, 2}]

NoChains == [ranged |-> "unset", hybrid |-> "unset", aoe |-> "null"]

Message(type, pass, chains) == [type |-> type, pass |-> pass, chains |-> chains]

\* new Worker(...) followed by postMessage(request): the script is still
\* loading and the request is queued for its self.onmessage.
NewWorker(request) ==
    [request |-> request, at |-> "loading", pass |-> "ranged", chains |-> NoChains,
     sent |-> <<>>, delivered |-> 0, terminated |-> FALSE, errorSeen |-> FALSE]

RunIdle ==
    /\ runBtn = [disabled |-> FALSE]
    /\ state = [tables |-> "null", worker |-> 0]
    /\ workers = <<>>
    /\ run = [init |-> "loading", at |-> "idle", clicks |-> 0]

\* init(): the await of loadArchetypeTables and loadAllPowers inside its
\* try block; the listener of the run button is bound before it.
LoadData ==
    /\ pc = "page"
    /\ run.init = "loading"
    /\ \/ state' = [state EXCEPT !.tables = "loaded"] /\ run' = [run EXCEPT !.init = "done"]
       \/ state' = state /\ run' = [run EXCEPT !.init = "failed"]
    /\ UNCHANGED <<runBtn, workers>>
    /\ UNCHANGED <<inputVars, callVars, unique, searchVars, chain, filter, sim, ov>>

\* The click listener: runOptimizer up to its first await.
Click ==
    /\ pc = "page"
    /\ ~runBtn.disabled
    /\ run.at = "idle"
    /\ run.clicks < MaxRuns
    /\ runBtn' = [runBtn EXCEPT !.disabled = TRUE]
    /\ run' = [run EXCEPT !.at = "parsePowers", !.clicks = @ + 1]
    /\ UNCHANGED <<state, workers>>
    /\ UNCHANGED <<inputVars, callVars, unique, searchVars, chain, filter, sim, ov>>

\* parsePowers reads tables.named_tables: it throws when state.tables is
\* still null.
ParsePowersThrows == state.tables = "null"

\* runOptimizer after its awaits: parsePowers threw and the call ends there,
\* or the rest of the function runs in one task.
RunOptimizerResume ==
    /\ pc = "page"
    /\ run.at = "parsePowers"
    /\ run' = [run EXCEPT !.at = "idle"]
    /\ IF ParsePowersThrows
       THEN UNCHANGED <<runBtn, state, workers>>
       ELSE \E request \in Requests :
              /\ workers' =
                    Append(IF state.worker # 0
                           THEN [workers EXCEPT ![state.worker].terminated = TRUE]
                           ELSE workers,
                           NewWorker(request))
              /\ state' = [state EXCEPT !.worker = Len(workers) + 1]
              /\ UNCHANGED runBtn
    /\ UNCHANGED <<inputVars, callVars, unique, searchVars, chain, filter, sim, ov>>

Running(w) == w \in 1..Len(workers) /\ ~workers[w].terminated

\* The worker's script loads and self.onmessage takes the request.
WorkerStarts(w) ==
    /\ pc = "page"
    /\ Running(w)
    /\ workers[w].at = "loading"
    /\ workers' = [workers EXCEPT ![w].at = "pass"]
    /\ UNCHANGED <<runBtn, state, run>>
    /\ UNCHANGED <<inputVars, callVars, unique, searchVars, chain, filter, sim, ov>>

\* The worker's script fails to load: an error event for worker.onerror.
WorkerCrashes(w) ==
    /\ pc = "page"
    /\ Running(w)
    /\ workers[w].at = "loading"
    /\ workers' = [workers EXCEPT ![w].at = "crashed"]
    /\ UNCHANGED <<runBtn, state, run>>
    /\ UNCHANGED <<inputVars, callVars, unique, searchVars, chain, filter, sim, ov>>

\* self.onmessage: postMessage({ type: 'pass', ... }) before each pass.
WorkerPass(w) ==
    /\ pc = "page"
    /\ Running(w)
    /\ workers[w].at = "pass"
    /\ workers' = [workers EXCEPT
                     ![w].sent = Append(@, Message("pass", workers[w].pass, NoChains)),
                     ![w].at = "optimizeChains"]
    /\ UNCHANGED <<runBtn, state, run>>
    /\ UNCHANGED <<inputVars, callVars, unique, searchVars, chain, filter, sim, ov>>

\* The attack list of a pass: the ranged pass drops the melee powers.
PassPowers(request, pass) ==
    IF pass = "ranged"
    THEN SelectSeq(request.powers, LAMBDA p : ~p.isMelee)
    ELSE request.powers

\* simulateChainWithBuffOverlay calls b.table.toLowerCase() on the entries of
\* every overlay power: a TypeError when the table is missing.
OverlayThrows(buffs) ==
    \E i \in 1..Len(buffs) : buffs[i].table = "undefined"

\* One call of optimizeChains by self.onmessage: an empty list returns []
\* at once; otherwise the lengths are searched (one "progress" entry stands
\* for the progress messages of the pass) and the overlay is applied.
WorkerOptimizeChains(w) ==
    /\ pc = "page"
    /\ Running(w)
    /\ workers[w].at = "optimizeChains"
    /\ LET wk == workers[w]
           ps == PassPowers(wk.request, wk.pass)
           progress == Append(wk.sent, Message("progress", wk.pass, NoChains))
           found == IF Len(ps) = 0 THEN "empty" ELSE "chains"
           chains == [wk.chains EXCEPT ![wk.pass] = found]
           last == wk.pass = "aoe" \/ (wk.pass = "hybrid" /\ wk.request.numTargets <= 1)
       IN  workers' =
              [workers EXCEPT ![w] =
                 IF Len(ps) > 0 /\ OverlayThrows(wk.request.buffPowers)
                 THEN [wk EXCEPT !.sent = progress, !.at = "catch"]
                 ELSE [wk EXCEPT
                         !.sent = IF Len(ps) = 0 THEN wk.sent ELSE progress,
                         !.chains = chains,
                         !.pass = IF wk.pass = "ranged" THEN "hybrid"
                                  ELSE IF last THEN wk.pass ELSE "aoe",
                         !.at = IF last THEN "result" ELSE "pass"]]
    /\ UNCHANGED <<runBtn, state, run>>
    /\ UNCHANGED <<inputVars, callVars, unique, searchVars, chain, filter, sim, ov>>

\* self.onmessage: the last statement of the try block, or the catch block.
WorkerFinal(w) ==
    /\ pc = "page"
    /\ Running(w)
    /\ workers[w].at \in {"result", "catch"}
    /\ workers' = [workers EXCEPT
                     ![w].sent = Append(@, IF workers[w].at = "result"
                                           THEN Message("result", "", workers[w].chains)
                                           ELSE Message("error", "", NoChains)),
                     ![w].at = "finished"]
    /\ UNCHANGED <<runBtn, state, run>>
    /\ UNCHANGED <<inputVars, callVars, unique, searchVars, chain, filter, sim, ov>>

\* worker.onmessage of runOptimizer, on the next message of worker w.
OnMessage(w) ==
    /\ pc = "page"
    /\ Running(w)
    /\ workers[w].delivered < Len(workers[w].sent)
    /\ LET msg == workers[w].sent[workers[w].delivered + 1]
       IN  IF msg.type \in {"result", "error"}
           THEN /\ runBtn' = [runBtn EXCEPT !.disabled = FALSE]
                /\ workers' = [workers EXCEPT ![w].delivered = @ + 1,
                                              ![w].terminated = TRUE]
                /\ state' = [state EXCEPT !.worker = 0]
           ELSE /\ workers' = [workers EXCEPT ![w].delivered = @ + 1]
                /\ UNCHANGED <<runBtn, state>>
    /\ UNCHANGED run
    /\ UNCHANGED <<inputVars, callVars, unique, searchVars, chain, filter, sim, ov>>

\* worker.onerror of runOptimizer.
OnError(w) ==
    /\ pc = "page"
    /\ Running(w)
    /\ workers[w].at = "crashed"
    /\ ~workers[w].errorSeen
    /\ runBtn' = [runBtn EXCEPT !.disabled = FALSE]
    /\ workers' = [workers EXCEPT ![w].errorSeen = TRUE]
    /\ state' = [state EXCEPT !.worker = 0]
    /\ UNCHANGED run
    /\ UNCHANGED <<inputVars, callVars, unique, searchVars, chain, filter, sim, ov>>


----------------------------------------------------------------------------
\* no function is called on its own
NoCall == callee = "none" /\ callArgs = <<>> /\ returned = <<>>

SearchIdle ==
    /\ len = 1 /\ combo = 0 /\ indices = <<>> /\ bestDpsThisLength = ZeroDps
    /\ lengthResults = <<>> /\ results = <<>> /\ globalBestDps = ZeroDps
    /\ unique = <<>> /\ topChains = <<>> /\ outcome = NoOutcome /\ skipped = {} /\ checked = 0

Init ==
    /\ \E in \in SearchInputs :
          /\ powers = PoolPowers(in[1])
          /\ buffPowers = PoolBuffs(in[2])
          /\ activationLatency = in[3]
          /\ topN = in[4]
    /\ pc = "start"
    /\ SearchIdle
    /\ RunIdle
    /\ NoCall
    /\ chain = <<>>
    /\ filter = [feasible |-> FALSE, worth |-> FALSE]
    /\ sim = SimInit
    /\ ov = OvInit(<<>>)

----------------------------------------------------------------------------
(* The life of one candidate chain, step by step: the filters of           *)
(* searchChains, the loop of simulateChainWithDefiance one activation at a *)
(* time, and, when there are overlay powers, the loop of                   *)
(* simulateChainWithBuffOverlay on the rotated result one step at a time.  *)

MaxSimChainLen == 3

\* The overlay lists the step-by-step runs are drawn from.
OverlayInputs == {<<>>, <<"Aim", "BuildUp">>, <<"BuildUp">>}

SimChains ==
    UNION {[1..n -> Slugs] : n \in 1..MaxSimChainLen}

ChainInit ==
    /\ \E ss \in SimChains : chain = PoolPowers(ss)
    /\ \E bs \in OverlayInputs : buffPowers = PoolBuffs(bs)
    /\ activationLatency \in Latencies
    /\ topN = TOP_N
    /\ powers = <<>>
    /\ pc = "classify"
    /\ SearchIdle
    /\ RunIdle
    /\ NoCall
    /\ filter = [feasible |-> FALSE, worth |-> FALSE]
    /\ sim = SimInit
    /\ ov = OvInit(<<>>)

\* searchChains: "if (!isChainFeasible(chain) && !isChainWorthSimulating(chain)) continue"
Classify ==
    /\ pc = "classify"
    /\ filter' = [feasible |-> IsChainFeasible(chain, activationLatency),
                  worth |-> IsChainWorthSimulating(chain, activationLatency)]
    /\ pc' = IF filter'.feasible \/ filter'.worth THEN "simulate" ELSE "discarded"
    /\ UNCHANGED <<runVars, inputVars, callVars, unique, chain, sim, ov, len, combo, indices, bestDpsThisLength,
                   lengthResults, results, globalBestDps, topChains, outcome,
                   skipped, checked>>

\* simulateChainWithDefiance: one activation
SimulateStep ==
    /\ pc = "simulate"
    /\ ~SimFinished(chain, sim)
    /\ sim' = SimStep(chain, activationLatency, sim)
    /\ UNCHANGED <<runVars, inputVars, callVars, unique, chain, filter, ov, searchVars>>

\* simulateChainWithDefiance returns; the result object is built and rotated,
\* and the overlay simulator is entered when there are overlay powers
SimReturn ==
    /\ pc = "simulate"
    /\ SimFinished(chain, sim)
    /\ results' = <<MakeResult(chain, SimResult(sim), Len(chain))>>
    /\ topChains' = <<RotateChainToHighestDpa(results'[1])>>
    /\ IF Len(buffPowers) > 0
       THEN pc' = "overlay" /\ ov' = OvInit(buffPowers)
       ELSE pc' = "returned" /\ UNCHANGED ov
    /\ UNCHANGED <<runVars, inputVars, callVars, unique, chain, filter, sim, len, combo, indices,
                   bestDpsThisLength, lengthResults, globalBestDps, outcome,
                   skipped, checked>>

\* simulateChainWithBuffOverlay: the loop test, one overlay power, or one attack
OverlayStep ==
    /\ pc = "overlay"
    /\ ov.at # "done"
    /\ ov' = OvStep(topChains[1].powers, buffPowers, activationLatency, ov)
    /\ UNCHANGED <<runVars, inputVars, callVars, unique, chain, filter, sim, searchVars>>

\* simulateChainWithBuffOverlay returns; optimizeChains annotates the chain
OverlayReturn ==
    /\ pc = "overlay"
    /\ ov.at = "done"
    /\ topChains' = <<Annotate(topChains[1], OvResult(topChains[1], buffPowers, ov))>>
    /\ pc' = "returned"
    /\ UNCHANGED <<runVars, inputVars, callVars, unique, chain, filter, sim, ov, len, combo, indices,
                   bestDpsThisLength, lengthResults, results, globalBestDps,
                   outcome, skipped, checked>>

SimNext == Classify \/ SimulateStep \/ SimReturn \/ OverlayStep \/ OverlayReturn

SimSpec == ChainInit /\ [][SimNext]_vars

Next == Start \/ StartLength \/ SearchStep \/ FinishLength \/ Finish

Spec == Init /\ [][Next]_vars


\* A wide input: so many powers that the longer lengths pass the ceiling.  The
\* first is strong and quick, the others weak and slow.
WideSlugs ==
    <<"D", "F", "G", "I", "J", "K", "M", "N", "O", "P", "Q", "R", "T", "U", "V",
      "W", "X", "Y", "Z">>

WidePowers ==
    [i \in 1..Len(WideSlugs) |->
        IF i = 1 THEN Power(WideSlugs[i], 1000, 1000, 1000, NoDefiance)
        ELSE Power(WideSlugs[i], 3000, 3000, 1, NoDefiance)]

WideInit ==
    /\ \/ powers = WidePowers /\ buffPowers = <<>> /\ activationLatency = 0
       \/ powers = PoolPowers(<<"A", "B">>) /\ buffPowers = <<>> /\ activationLatency = 0
    /\ topN = TOP_N
    /\ pc = "start"
    /\ SearchIdle
    /\ RunIdle
    /\ NoCall
    /\ chain = <<>>
    /\ filter = [feasible |-> FALSE, worth |-> FALSE]
    /\ sim = SimInit
    /\ ov = OvInit(<<>>)

WideSpec == WideInit /\ [][Next]_vars

----------------------------------------------------------------------------
(* Functions called on their own: the two normalizeChainKey of the         *)
(* repository (src/js/ui.js and src/js/optimizer-worker.js) and arcanaTime.*)

\* The place of a slug in SlugOrder.
SlugRank(slug) == CHOOSE r \in 1..Len(SlugOrder) : SlugOrder[r] = slug

RECURSIVE JoinedLT(_, _, _)
\* a.join(',') < b.join(',') for slug lists a and b of one length that agree
\* before entry i: the strings differ first inside the first entry that
\* differs, and there a slug that is a prefix of the other is followed by the
\* comma or the end, both below every character of a slug.
JoinedLT(a, b, i) ==
    IF i > Len(a) THEN FALSE
    ELSE IF a[i] = b[i] THEN JoinedLT(a, b, i + 1)
    ELSE SlugRank(a[i]) < SlugRank(b[i])

RECURSIVE LeastRotationFrom(_, _, _)
\* optimizer-worker.js, normalizeChainKey: the loop over i keeping the least
\* rotation (doubled.slice(i, i + slugs.length))
LeastRotationFrom(slugs, i, best) ==
    IF i >= Len(slugs) THEN best
    ELSE LeastRotationFrom(slugs, i + 1,
                           IF JoinedLT(RotateSeq(slugs, i), best, 1)
                           THEN RotateSeq(slugs, i) ELSE best)

\* optimizer-worker.js, normalizeChainKey(slugs): the least rotation, joined
WorkerNormalizeChainKey(slugs) == Join(LeastRotationFrom(slugs, 1, slugs))

\* const TICK = 0.132, in ms
TICK == 132

\* Math.ceil(a / b) for b > 0
CeilDiv(a, b) == (a + b - 1) \div b

\* arcanaTime(castSeconds) without the extra tick
ArcanaTimeNoExtraTick(castMs) ==
    IF castMs <= 0 THEN TICK ELSE CeilDiv(castMs, TICK) * TICK

\* arcanaTime(castSeconds), in ms
ArcanaTime(castMs) ==
    IF castMs <= 0 THEN TICK ELSE (CeilDiv(castMs, TICK) + 1) * TICK

MaxKeyLen == 6
MaxCastMs == 1700

\* The slugs the keys are computed over: one is the other two run together.
KeySlugs == {"A", "AB", "B"}

SlugListsUpTo(n) == UNION {[1..k -> KeySlugs] : k \in 1..n}

\* The argument lists of two calls of normalizeChainKey.
KeyCalls ==
    {<<s, t>> : s \in SlugListsUpTo(MaxKeyLen \div 2), t \in SlugListsUpTo(MaxKeyLen)}

\* The arguments of one call of arcanaTime, in ms.
CastTimes == (0 - TICK)..MaxCastMs

CallInit ==
    /\ \/ /\ callee \in {"normalizeChainKey", "optimizer-worker.normalizeChainKey"}
          /\ callArgs \in KeyCalls
       \/ /\ callee = "arcanaTime"
          /\ callArgs \in {<<d>> : d \in CastTimes}
    /\ returned = <<>>
    /\ pc = "call"
    /\ powers = <<>> /\ buffPowers = <<>> /\ activationLatency = 0 /\ topN = TOP_N
    /\ SearchIdle
    /\ RunIdle
    /\ chain = <<>>
    /\ filter = [feasible |-> FALSE, worth |-> FALSE]
    /\ sim = SimInit
    /\ ov = OvInit(<<>>)

\* The next call is made and returns.
Returns(name, value) ==
    /\ pc = "call"
    /\ callee = name
    /\ Len(returned) < Len(callArgs)
    /\ returned' = Append(returned, value)
    /\ UNCHANGED <<runVars, inputVars, callee, callArgs, unique, searchVars, chain, filter, sim, ov>>

\* src/js/ui.js: normalizeChainKey(slugs)
NormalizeChainKeyCall ==
    Returns("normalizeChainKey", NormalizeChainKey(callArgs[Len(returned) + 1]))

\* src/js/optimizer-worker.js: normalizeChainKey(slugs)
WorkerNormalizeChainKeyCall ==
    Returns("optimizer-worker.normalizeChainKey",
            WorkerNormalizeChainKey(callArgs[Len(returned) + 1]))

\* arcanaTime(castSeconds)
ArcanaTimeCall ==
    Returns("arcanaTime", ArcanaTime(callArgs[Len(returned) + 1]))

CallNext == NormalizeChainKeyCall \/ WorkerNormalizeChainKeyCall \/ ArcanaTimeCall

CallSpec == CallInit /\ [][CallNext]_vars

----------------------------------------------------------------------------

\* The page after the script of main.js has run up to init()'s first await.
RunInit ==
    /\ pc = "page"
    /\ powers = <<>> /\ buffPowers = <<>> /\ activationLatency = 0 /\ topN = TOP_N
    /\ SearchIdle
    /\ RunIdle
    /\ NoCall
    /\ chain = <<>>
    /\ filter = [feasible |-> FALSE, worth |-> FALSE]
    /\ sim = SimInit
    /\ ov = OvInit(<<>>)

WorkerNext(w) ==
    \/ WorkerStarts(w) \/ WorkerCrashes(w) \/ WorkerPass(w)
    \/ WorkerOptimizeChains(w) \/ WorkerFinal(w)

MainNext(w) == OnMessage(w) \/ OnError(w)

RunNext ==
    \/ LoadData \/ Click \/ RunOptimizerResume
    \/ \E w \in 1..MaxRuns : WorkerNext(w) \/ MainNext(w)

RunSpec == RunInit /\ [][RunNext]_vars

\* The browser runs every queued task and every worker keeps running; only
\* the click is up to the user.
FairRunSpec ==
    /\ RunSpec
    /\ WF_vars(LoadData) /\ WF_vars(RunOptimizerResume)
    /\ \A w \in 1..MaxRuns : WF_vars(WorkerNext(w)) /\ WF_vars(MainNext(w))

----------------------------------------------------------------------------
(* Properties of the search                                                *)

\* The sequences of the given length over the input powers.
SequencesOfLength(length) ==
    {ChainOf(powers, idx) : idx \in [1..length -> 0..(Len(powers) - 1)]}

\* The sequences C1 speaks of: length 1..8, the length not skipped by the
\* ceiling, accepted by one of the two filters.
EligibleSequences ==
    UNION {{c \in SequencesOfLength(length) :
               \/ IsChainFeasible(c, activationLatency)
               \/ IsChainWorthSimulating(c, activationLatency)} :
           length \in (1..MAX_CHAIN_LENGTH) \ skipped}

\* C1 (as claimed): with no overlay powers, once optimizeChains has returned,
\* the first result's dps is at least the simulated dps of every eligible
\* sequence: pruning and truncation never lose the highest-throughput
\* candidate.
C1_FirstResultIsBest ==
    (pc = "done" /\ Len(buffPowers) = 0) =>
        \A c \in EligibleSequences :
            /\ Len(topChains) > 0
            /\ DpsLE(SimulateChainWithDefiance(c, activationLatency).dps, topChains[1].dps)

\* searchChains has just finished an iteration: outcome and chain are those of
\* the last candidate decoded, checked and lengthResults their values after it.
JustEvaluated == pc = "search" /\ combo > 0

RECURSIVE Encode(_, _, _)
\* The number whose digits in base n, most significant first, are the first k
\* entries of idx.
Encode(idx, n, k) == IF k = 0 THEN 0 ELSE Encode(idx, n, k - 1) * n + idx[k]

\* What a step of the search may do to the enumeration.
EnumerationStep ==
    LET n == Len(powers) IN
    /\ (pc = "length" /\ pc' = "search") =>
          /\ Pow(n, len) <= 2000000
          /\ len' = len /\ combo' = 0 /\ skipped' = skipped
    /\ (pc = "length" /\ pc' = "length") =>
          /\ Pow(n, len) > 2000000
          /\ len' = len + 1 /\ skipped' = skipped \cup {len}
          /\ results' = results /\ checked' = checked /\ chain' = chain
          /\ outcome' = outcome
    /\ (pc = "search" /\ pc' = "search") =>
          /\ combo < Pow(n, len)
          /\ combo' = combo + 1 /\ len' = len /\ skipped' = skipped
          /\ indices' \in [1..len -> 0..(n - 1)]
          /\ Encode(indices', n, len) = combo
          /\ chain' = [i \in 1..len |-> powers[indices'[i] + 1]]
          /\ outcome'.indices = indices' /\ outcome'.length = len
    /\ (pc = "search" /\ pc' = "length") =>
          /\ combo = Pow(n, len)
          /\ len' = len + 1 /\ skipped' = skipped
    /\ (pc = "length" /\ pc' = "done") =>
          /\ len = 9
          /\ skipped = {length \in 1..8 : Pow(n, length) > 2000000}
          /\ \A k \in 1..Len(results) : results[k].length \notin skipped

\* C9: for n powers the search considers, for each length L in 1..8 with
\* n^L <= 2,000,000, the n^L sequences, each decoded from one combination
\* index 0..n^L-1 (the index is the sequence's digits read in base n) and each
\* index once, in order; a length with n^L > 2,000,000 is skipped whole,
\* nothing of that length being decoded, simulated or held, and the lengths
\* before it are searched as usual.
C9_EverySequenceDecodedOnce == [][EnumerationStep]_vars

\* C9's case: the wide search has returned, having decoded every index of
\* lengths 1..4 and skipped lengths 5..8.
C9_Witness ==
    /\ pc = "done"
    /\ Len(powers) = Len(WideSlugs)
    /\ skipped = 5..8
    /\ combo = Pow(Len(powers), 4)
    /\ indices = [i \in 1..4 |-> Len(powers) - 1]
    /\ Len(topChains) > 0

\* The number of places of c that hold the action slug.
Occurrences(c, slug) == Cardinality({i \in 1..Len(c) : c[i].slug = slug})

\* The worth-simulating condition as C8 words it: every action appearing
\* k > 1 times has k * effectiveRecharge <= 3 * (sum of arcanaTime + latency).
WorthByCount(c, latency) ==
    \A i \in 1..Len(c) :
        Occurrences(c, c[i].slug) > 1 =>
            Occurrences(c, c[i].slug) * c[i].effectiveRecharge
                <= 3 * SumOver([j \in 1..Len(c) |-> c[j].arcanaTime + latency])

\* A result's chain is accepted by one of the two filters.
ResultAccepted(r) ==
    \/ IsChainFeasible(r.powers, activationLatency)
    \/ WorthByCount(r.powers, activationLatency)

\* C8: searchChains simulates a candidate only if isChainFeasible or
\* isChainWorthSimulating accepts it, isChainWorthSimulating being exactly the
\* count condition above; a candidate failing both is dropped without being
\* simulated or held, and no returned or merged result is such a chain.
C8_SimulatedOnlyIfAccepted ==
    /\ outcome.kind # "none" =>
          (IsChainWorthSimulating(chain, activationLatency)
              <=> WorthByCount(chain, activationLatency))
    /\ outcome.kind \in {"pushed", "uncompetitive"} =>
          /\ \/ IsChainFeasible(chain, activationLatency)
             \/ WorthByCount(chain, activationLatency)
          /\ JustEvaluated => checked = outcome.checked + 1
    /\ (outcome.kind # "none"
          /\ ~IsChainFeasible(chain, activationLatency)
          /\ ~WorthByCount(chain, activationLatency)) =>
          /\ outcome.kind \in {"bound", "filtered"}
          /\ JustEvaluated =>
                checked = outcome.checked /\ Len(lengthResults) = outcome.held
    /\ (JustEvaluated /\ outcome.kind = "pushed") =>
          ResultAccepted(lengthResults[Len(lengthResults)])
    /\ pc = "done" =>
          /\ \A k \in 1..Len(results) : ResultAccepted(results[k])
          /\ \A k \in 1..Len(topChains) : ResultAccepted(topChains[k])

\* C8's case: a candidate rejected by both filters has just been discarded.
C8_Witness ==
    /\ JustEvaluated
    /\ outcome.kind = "filtered"
    /\ ~IsChainFeasible(chain, activationLatency)
    /\ ~WorthByCount(chain, activationLatency)
    /\ Occurrences(chain, chain[1].slug) > 1

\* best is the greatest of the dps value floor and the dps of the results held.
IsBestOf(best, held, floor) ==
    /\ DpsLE(floor, best)
    /\ \A k \in 1..Len(held) : DpsLE(held[k].dps, best)
    /\ \/ DpsEQ(best, floor)
       \/ \E k \in 1..Len(held) : DpsEQ(held[k].dps, best)

----------------------------------------------------------------------------
(* Properties of the filters and of the chain simulator                    *)

\* The chain's place d steps after place k, cyclically (places are 1-based).
PlaceAfter(c, k, d) == ((k - 1 + d) % Len(c)) + 1

\* The number of steps from place k to the next occurrence of the same action,
\* cyclically: Len(c) when the action occurs once.
StepsToNext(c, k) ==
    CHOOSE d \in 1..Len(c) :
        /\ c[PlaceAfter(c, k, d)].slug = c[k].slug
        /\ \A e \in 1..(d - 1) : c[PlaceAfter(c, k, e)].slug # c[k].slug

RECURSIVE TimeOfSteps(_, _, _, _)
\* The sum of arcanaTime + latency over the d places from place k on, cyclically.
TimeOfSteps(c, latency, k, d) ==
    IF d = 0 THEN 0
    ELSE c[k].arcanaTime + latency + TimeOfSteps(c, latency, PlaceAfter(c, k, 1), d - 1)

\* The wrap-aware gap from the occurrence at place k to the next occurrence of
\* the same action.
GapToNext(c, latency, k) == TimeOfSteps(c, latency, k, StepsToNext(c, k))

\* The filters have answered for chain.
Classified == pc \in {"simulate", "discarded", "overlay", "returned"}

\* C7: isChainFeasible answers true exactly when every occurrence's wrap-aware
\* gap to the next occurrence of the same action is at least its
\* effectiveRecharge minus 0.001; [A,B] (durations 1, recharges 2) is feasible
\* and [C,B] (C as A but recharge 2.5) is not.
C7_FeasibleIffGaps ==
    Classified =>
        /\ filter.feasible <=>
              \A k \in 1..Len(chain) :
                  GapToNext(chain, activationLatency, k) >= chain[k].effectiveRecharge - 1
        /\ (SlugsOf(chain) = <<"A", "B">> /\ activationLatency = 0) => filter.feasible
        /\ (SlugsOf(chain) = <<"C", "B">> /\ activationLatency = 0) => ~filter.feasible

\* C7's case: the two-action chain whose first action has recharge 2.5 has
\* been answered infeasible, the gap of 2 falling short by more than 0.001.
C7_Witness ==
    /\ Classified
    /\ SlugsOf(chain) = <<"C", "B">>
    /\ activationLatency = 0
    /\ GapToNext(chain, activationLatency, 1) = 2000
    /\ ~filter.feasible

\* The elapsed time of the activations of the trace is that of a run without
\* wait: none waits, and the k-th starts when the k - 1 before it have taken
\* their arcanaTime + latency each.
NoWaitIn(trace) ==
    \A k \in 1..Len(trace) :
        /\ trace[k].waitBefore = 0
        /\ trace[k].at = TimeOfSteps(chain, activationLatency, 1, k - 1)

\* The measured totalTime is the sum of arcanaTime + latency over the chain.
MeasuredTimeIsCycle ==
    SimFinished(chain, sim) =>
        SimResult(sim).totalTime = TimeOfSteps(chain, activationLatency, 1, Len(chain))

NoGapInTolerance(c, latency) ==
    \A k \in 1..Len(c) :
        ~(/\ GapToNext(c, latency, k) >= c[k].effectiveRecharge - 1
          /\ GapToNext(c, latency, k) < c[k].effectiveRecharge)

EarlierUses(trace, k) == {j \in 1..(k - 1) : trace[j].slug = trace[k].slug}

\* The last of them (the set is not empty).
LastUse(trace, k) ==
    CHOOSE j \in EarlierUses(trace, k) : \A m \in EarlierUses(trace, k) : m <= j

\* C3: in simulateChainWithDefiance, over all four passes, an activation starts
\* where the previous one ended (arcanaTime + latency after its start), unless
\* the last activation of the same action plus its effectiveRecharge is later:
\* then the clock is advanced exactly to that time, which is the wait recorded.
\* So two consecutive activations of an action are at least effectiveRecharge
\* apart, start to start.  The cooldown table keeps an entry for every action
\* activated so far, passes before included: its last start plus its recharge.
C3_NeverBeforeCooldown ==
    /\ \A k \in 1..Len(sim.trace) :
          LET e == sim.trace[k] IN
          /\ e.before = IF k = 1 THEN 0
                        ELSE sim.trace[k - 1].at + chain[((k - 2) % Len(chain)) + 1].arcanaTime
                                 + activationLatency
          /\ e.cycle = (k - 1) \div Len(chain)
          /\ e.slug = chain[((k - 1) % Len(chain)) + 1].slug
          /\ e.waitBefore = e.at - e.before
          /\ IF EarlierUses(sim.trace, k) = {}
             THEN e.at = e.before
             ELSE LET last == sim.trace[LastUse(sim.trace, k)] IN
                  /\ e.at - last.at >= e.recharge
                  /\ e.at = IF last.at + e.recharge > e.before
                            THEN last.at + e.recharge ELSE e.before
    /\ DOMAIN sim.cooldowns = {sim.trace[k].slug : k \in 1..Len(sim.trace)}
    /\ \A k \in 1..Len(sim.trace) :
          (\A m \in (k + 1)..Len(sim.trace) : sim.trace[m].slug # sim.trace[k].slug) =>
              sim.cooldowns[sim.trace[k].slug] = sim.trace[k].at + sim.trace[k].recharge

\* C3's case: in the last pass an action has waited for the cooldown entry
\* written by its activation in the pass before.
C3_Witness ==
    \E k \in 1..Len(sim.trace) :
        /\ sim.trace[k].cycle = TotalCycles - 1
        /\ sim.trace[k].waitBefore > 0
        /\ EarlierUses(sim.trace, k) # {}
        /\ sim.trace[LastUse(sim.trace, k)].cycle = TotalCycles - 2
        /\ sim.trace[k].at = sim.trace[LastUse(sim.trace, k)].at + sim.trace[k].recharge

\* The buff instance the j-th activation of the trace creates, if it creates one.
Creates(trace, j) == trace[j].buff.scale > 0
ExpiryOf(trace, j) == trace[j].at + trace[j].buff.duration

RECURSIVE SumOfScales(_, _)
\* The sum of the bonus fractions of the instances created by the activations js.
SumOfScales(trace, js) ==
    IF js = {} THEN 0
    ELSE LET j == CHOOSE x \in js : TRUE IN
         trace[j].buff.scale + SumOfScales(trace, js \ {j})

\* The activations before the k-th whose instance has not expired at the k-th.
Unexpired(trace, k) ==
    {j \in 1..(k - 1) : Creates(trace, j) /\ ExpiryOf(trace, j) > trace[k].at}

\* The instance of the j-th activation has been replaced before the k-th: the
\* action is Replace-mode and was activated again in between.
Replaced(trace, j, k) ==
    /\ trace[j].buff.stacking = "Replace"
    /\ \E m \in (j + 1)..(k - 1) : trace[m].slug = trace[j].slug

\* C4 (as claimed): the multiplier of an activation is 1 plus the bonus
\* fractions of all instances created by strictly earlier activations whose
\* expiry is strictly later than its start; its value is base * multiplier.
C4_MultiplierCountsAllUnexpired ==
    \A k \in 1..Len(sim.trace) :
        /\ sim.trace[k].defianceMult
              = 1000 + SumOfScales(sim.trace, Unexpired(sim.trace, k))
        /\ sim.trace[k].damage = sim.trace[k].base * sim.trace[k].defianceMult

\* C4 (amended): the multiplier of an activation is 1 plus the bonus fractions
\* of the instances created by strictly earlier activations, not replaced
\* since by a Replace-mode activation of the same action, whose expiry is
\* strictly later than its start; its value is base * multiplier, so its own
\* instance never counts toward it.
C4_MultiplierCountsUnexpiredUnreplaced ==
    \A k \in 1..Len(sim.trace) :
        /\ sim.trace[k].defianceMult
              = 1000 + SumOfScales(sim.trace,
                                   {j \in Unexpired(sim.trace, k) :
                                       ~Replaced(sim.trace, j, k)})
        /\ sim.trace[k].damage = sim.trace[k].base * sim.trace[k].defianceMult

\* C4's case: at an activation one earlier instance counts and another, not
\* expired either, does not, having been replaced.
C4_Witness ==
    \E k \in 1..Len(sim.trace) :
        /\ \E j \in Unexpired(sim.trace, k) : Replaced(sim.trace, j, k)
        /\ \E j \in Unexpired(sim.trace, k) : ~Replaced(sim.trace, j, k)
        /\ sim.trace[k].defianceMult > 1000

\* The chain C5 speaks of: one action with a Stack-mode self-buff of fraction
\* 0.1 lasting exactly three times its arcanaTime, no latency, and no wait
\* (its recharge is over when its cast is).
IsC5Chain ==
    /\ Len(chain) = 1
    /\ chain[1].defiance.stacking = "Stack"
    /\ chain[1].defiance.scale = 100
    /\ chain[1].defiance.duration = 3 * chain[1].arcanaTime
    /\ chain[1].effectiveRecharge <= chain[1].arcanaTime
    /\ activationLatency = 0

\* C5 (as claimed): for that chain the multiplier recorded on the measurement
\* pass is 1.3, and that of the first pass 1.0.
C5_MeasuredMultiplierIsThreeStacks ==
    (IsC5Chain /\ SimFinished(chain, sim)) =>
        /\ SimResult(sim).perPowerDefianceMult = <<1300>>
        /\ sim.trace[1].defianceMult = 1000

\* C5 (amended): for that chain the multiplier recorded on the measurement
\* pass is 1.2 (the instance created three arcanaTimes earlier expires exactly
\* at the measured activation and is removed, two remain), and that of the
\* first pass 1.0.
C5_MeasuredMultiplierIsTwoStacks ==
    (IsC5Chain /\ SimFinished(chain, sim)) =>
        /\ SimResult(sim).perPowerDefianceMult = <<1200>>
        /\ sim.trace[1].defianceMult = 1000

\* C5's case: that chain has been simulated to the end without wait, and the
\* instance of its first activation expires exactly at the measured one.
C5_Witness ==
    /\ IsC5Chain
    /\ SimFinished(chain, sim)
    /\ NoWaitIn(sim.trace)
    /\ ExpiryOf(sim.trace, 1) = sim.trace[TotalCycles].at
    /\ sim.trace[TotalCycles].cycle = DEFIANCE_WARMUP_CYCLES

\* The instances of the source slug in the pool, in order.
InstancesOf(pool, slug) == SelectSeq(pool, LAMBDA b : b.slug = slug)

\* The instances of the other sources in the pool, in order.
InstancesOfOthers(pool, slug) == SelectSeq(pool, LAMBDA b : b.slug # slug)

\* The pool holds at most one instance of each source the predicate
\* isReplace names.
AtMostOnePerReplaceSource(pool, isReplace(_)) ==
    \A k \in 1..Len(pool) :
        isReplace(pool[k].slug) => Len(InstancesOf(pool, pool[k].slug)) = 1

\* What the activation of the source slug, of the given mode, has done to the
\* pool: in Replace mode every instance of the source has gone and its new one
\* is there, those of the other sources being as before; in Stack mode the
\* pool is as before with the new instance added.
Activated(before, after, slug, mode, expiresAt) ==
    /\ Len(after) > 0
    /\ after[Len(after)].slug = slug
    /\ after[Len(after)].expiresAt = expiresAt
    /\ IF mode = "Replace"
       THEN /\ Len(InstancesOf(after, slug)) = 1
            /\ InstancesOfOthers(after, slug) = InstancesOfOthers(before, slug)
       ELSE SubSeq(after, 1, Len(after) - 1) = before

\* The modes of the sources of the three pools.
ChainReplaces(slug) ==
    \E k \in 1..Len(chain) :
        /\ chain[k].slug = slug
        /\ chain[k].defiance.stacking = "Replace"
ClickReplaces(slug) ==
    \E k \in 1..Len(buffPowers) :
        /\ buffPowers[k].slug = slug
        /\ buffPowers[k].buffStacking = "Replace"

\* C6: at every point of the chain simulator and of the overlay simulator a
\* pool holds at most one instance per Replace-mode source; an activation in
\* Replace mode removes the instances of its own source only and adds its new
\* one, an activation in Stack mode adds one and removes none.
C6_OneInstancePerReplaceSource ==
    /\ AtMostOnePerReplaceSource(sim.activeBuffs, ChainReplaces)
    /\ AtMostOnePerReplaceSource(ov.defianceBuffs, ChainReplaces)
    /\ AtMostOnePerReplaceSource(ov.clickBuffs, ClickReplaces)
    /\ Len(sim.trace) > 0 =>
          LET e == sim.trace[Len(sim.trace)] IN
          IF e.buff.scale > 0
          THEN Activated(e.held, sim.activeBuffs, e.slug, e.buff.stacking,
                         e.at + e.buff.duration)
          ELSE sim.activeBuffs = e.held
    /\ (pc = "overlay" /\ ov.fired.kind = "buff" /\ ov.at # "head") =>
          LET buff == CHOOSE b \in {buffPowers[k] : k \in 1..Len(buffPowers)} :
                          b.slug = ov.fired.slug
          IN  Activated(ov.fired.pool, ov.clickBuffs, buff.slug, buff.buffStacking,
                        ov.currentTime + buff.buffDuration)
    /\ (pc = "overlay" /\ ov.fired.kind = "attack" /\ ov.at = "head") =>
          LET power == CHOOSE q \in {chain[k] : k \in 1..Len(chain)} :
                           q.slug = ov.fired.slug
          IN  IF power.defiance.scale > 0
              THEN Activated(ov.fired.pool, ov.defianceBuffs, power.slug,
                             power.defiance.stacking,
                             ov.fired.at + power.defiance.duration)
              ELSE ov.defianceBuffs = ov.fired.pool

\* C6's case: in the overlay simulator a Replace-mode overlay power has fired
\* while its earlier instance and an instance of another source were in the
\* pool: the first has gone, the second is still there.
C6_Witness ==
    /\ pc = "overlay"
    /\ ov.fired.kind = "buff"
    /\ ov.at # "head"
    /\ ClickReplaces(ov.fired.slug)
    /\ Len(InstancesOf(ov.fired.pool, ov.fired.slug)) = 1
    /\ Len(InstancesOfOthers(ov.fired.pool, ov.fired.slug)) > 0
    /\ Len(ov.clickBuffs) = Len(ov.fired.pool)
    /\ \E k \in 1..Len(sim.activeBuffs) : sim.activeBuffs[k].stacking = "Replace"

----------------------------------------------------------------------------
(* Properties of the ranking                                               *)

\* The canonical keys of the merged results, in order.
KeysOfResults ==
    SubSeq([i \in 1..Len(results) |-> NormalizeChainKey(SlugsOfResult(results[i]))],
           1, Len(results))

\* results[i] is the survivor of its key: no result of the same key has a
\* higher dps, nor the same dps and an earlier place in the merged list.
Survives(keys, i) ==
    \A j \in 1..Len(results) :
        (j # i /\ keys[j] = keys[i]) =>
            \/ DpsLT(results[j].dps, results[i].dps)
            \/ DpsEQ(results[j].dps, results[i].dps) /\ i < j

\* t is the result r up to the rotation of its action list.
IsRotationOf(t, r) ==
    /\ t.dps = r.dps /\ t.totalDamage = r.totalDamage /\ t.totalTime = r.totalTime
    /\ t.length = r.length
    /\ \E k \in 0..(Len(r.powers) - 1) :
           t.powers = [i \in 1..Len(r.powers) |->
                          r.powers[((i - 1 + k) % Len(r.powers)) + 1]]

\* The ranking value C11 speaks of: buffedDps when overlay actions were
\* supplied, dps otherwise.
ClaimedRankingValue(r) == IF Len(buffPowers) > 0 THEN r.buffedDps ELSE r.dps

\* The returned list against the merged results, the survivors' keys given.
TopOfSurvivors(keys) ==
    LET surv == {i \in 1..Len(results) : Survives(keys, i)}
        chosen == {i \in surv : \E k \in 1..Len(topChains) :
                                    IsRotationOf(topChains[k], results[i])}
    IN  /\ Len(topChains) = (IF Cardinality(surv) < topN THEN Cardinality(surv) ELSE topN)
        /\ Cardinality(chosen) = Len(topChains)
        /\ \A i \in surv \ chosen : \A c \in chosen :
               DpsLE(results[i].dps, results[c].dps)

\* C11: the list optimizeChains returns has at most topN entries, is in
\* non-increasing order of ranking value (buffedDps when overlay actions were
\* supplied, dps otherwise), and its entries are the topN survivors of
\* deduplication of highest dps among the merged per-length results.
C11_ReturnedListIsRankedTop ==
    pc = "done" =>
        /\ Len(topChains) <= topN
        /\ \A k \in 1..(Len(topChains) - 1) :
               DpsLE(ClaimedRankingValue(topChains[k + 1]),
                     ClaimedRankingValue(topChains[k]))
        /\ \A keys \in {KeysOfResults} : TopOfSurvivors(keys)

----------------------------------------------------------------------------
(* Properties of the canonical key                                         *)

\* t is a cyclic rotation of s.
IsRotation(t, s) ==
    /\ Len(t) = Len(s)
    /\ \E k \in 0..(Len(s) - 1) :
           t = [i \in 1..Len(s) |-> s[((i - 1 + k) % Len(s)) + 1]]

\* s repeated k times.
Repeated(s, k) == [i \in 1..(k * Len(s)) |-> s[((i - 1) % Len(s)) + 1]]

\* t is s repeated some k >= 1 times.
IsRepetition(t, s) ==
    /\ Len(t) % Len(s) = 0
    /\ t = Repeated(s, Len(t) \div Len(s))

\* Both calls of a normalizeChainKey have returned.
KeysReturned ==
    /\ callee \in {"normalizeChainKey", "optimizer-worker.normalizeChainKey"}
    /\ Len(returned) = 2

\* C12: normalizeChainKey (either of the two the claim names, src/js/ui.js and
\* src/js/optimizer-worker.js) gives a rotation of a sequence, and the
\* sequence repeated k >= 1 times, the key of the sequence.
C12_KeyInvariantUnderRotationAndRepetition ==
    (/\ KeysReturned
     /\ \/ IsRotation(callArgs[2], callArgs[1])
        \/ IsRepetition(callArgs[2], callArgs[1]))
        => returned[2] = returned[1]

\* The minimal repeating unit as C13 words it: the shortest prefix whose length
\* divides the length of s and whose repetition gives s (s itself at the least).
ShortestRepeatingPrefix(s) ==
    LET fits == {l \in 1..Len(s) :
                    Len(s) % l = 0 /\ Repeated(SubSeq(s, 1, l), Len(s) \div l) = s}
    IN  SubSeq(s, 1, CHOOSE l \in fits : \A m \in fits : l <= m)

\* a and b are permutations of each other: equal as multisets.
SameMultiset(a, b) ==
    \A x \in KeySlugs :
        Cardinality({i \in DOMAIN a : a[i] = x}) = Cardinality({i \in DOMAIN b : b[i] = x})

\* C13: two sequences get the same normalizeChainKey (src/js/ui.js) if and only
\* if their minimal repeating units are permutations of each other.
C13_SameKeyIffUnitsArePermutations ==
    (callee = "normalizeChainKey" /\ Len(returned) = 2) =>
        (returned[1] = returned[2]
            <=> SameMultiset(ShortestRepeatingPrefix(callArgs[1]),
                             ShortestRepeatingPrefix(callArgs[2])))

\* Two sequences of different lengths got the same key although the unit of
\* the second is no rotation of the first.
C13_Witness ==
    /\ callee = "normalizeChainKey" /\ Len(returned) = 2
    /\ returned[1] = returned[2]
    /\ Len(callArgs[1]) = 3 /\ Len(callArgs[2]) = 6
    /\ ~IsRotation(ShortestRepeatingPrefix(callArgs[2]), callArgs[1])
    /\ callArgs[1][1] # callArgs[1][2] /\ callArgs[1][2] # callArgs[1][3]

----------------------------------------------------------------------------
(* Properties of deduplicateChains                                         *)

\* The canonical key of a result.
KeyOfResult(r) == NormalizeChainKey(SlugsOfResult(r))

\* optimizeChains has sorted its results and deduplicated them.
Deduplicated == pc = "done" /\ Len(powers) > 0

\* kept is the list of the first entries of each key of input, in input order:
\* place[k] is where kept[k] stands in input.
FirstOfEachKey(input, keys, kept) ==
    LET firsts == {i \in 1..Len(input) : \A j \in 1..(i - 1) : keys[j] # keys[i]}
    IN  /\ Len(kept) = Cardinality(firsts)
        /\ \A k \in 1..Len(kept) :
               \E i \in firsts :
                   /\ kept[k] = input[i]
                   /\ Cardinality({j \in firsts : j < i}) = k - 1

\* C14: deduplicateChains returns the first result of each canonical key, in
\* input order: no two survivors share a key, every key of the input survives
\* once, and, the input being sorted by descending dps, no dropped result has
\* a higher dps than the survivor of its key.
C14_FirstOfEachKeySurvives ==
    Deduplicated =>
        \A keys \in {SubSeq([i \in 1..Len(results) |-> KeyOfResult(results[i])],
                             1, Len(results))} :
            /\ \A i \in 1..(Len(results) - 1) :
                   DpsLE(results[i + 1].dps, results[i].dps)
            /\ FirstOfEachKey(results, keys, unique)
            /\ \A k, l \in 1..Len(unique) :
                   k # l => KeyOfResult(unique[k]) # KeyOfResult(unique[l])
            /\ \A i \in 1..Len(results) :
                   \E k \in 1..Len(unique) :
                       /\ KeyOfResult(unique[k]) = keys[i]
                       /\ DpsLE(results[i].dps, unique[k].dps)

\* Results were dropped, one of them of lower dps than the survivor of its
\* key, and more than topN keys survive.
C14_Witness ==
    /\ Deduplicated
    /\ Len(unique) > topN /\ Len(unique) < Len(results)
    /\ \E i \in 1..Len(results) : \E k \in 1..Len(unique) :
           /\ KeyOfResult(unique[k]) = KeyOfResult(results[i])
           /\ DpsLT(results[i].dps, unique[k].dps)

----------------------------------------------------------------------------
(* Properties of the search on two actions                                 *)

\* The slugs alternate, cyclically: the list is a rotation of the 2-cycle of
\* two different actions, repeated.
IsTwoCycle(slugs) ==
    /\ Len(slugs) % 2 = 0
    /\ \A i \in 1..Len(slugs) : slugs[i] # slugs[(i % Len(slugs)) + 1]

\* The case of C15: two actions, and the feasible chains (isChainFeasible) of
\* the lengths searched are the 2-cycle [A,B], its rotations and repetitions,
\* and no other.
OnlyTwoCycleFeasible ==
    /\ Len(powers) = 2
    /\ powers[1].slug # powers[2].slug
    /\ IsChainFeasible(powers, activationLatency)
    /\ \A length \in 1..MAX_CHAIN_LENGTH :
           \A c \in SequencesOfLength(length) :
               IsChainFeasible(c, activationLatency) => IsTwoCycle(SlugsOf(c))

\* The entries of a result list that are the 2-cycle, rotated or repeated.
TwoCyclesIn(list) == {k \in 1..Len(list) : IsTwoCycle(SlugsOfResult(list[k]))}

\* C15 (as claimed): when only the rotations and repetitions of the 2-cycle
\* [A,B] are feasible, optimizeChains returns exactly one result.
C15_ExactlyOneResult ==
    (pc = "done" /\ OnlyTwoCycleFeasible) => Len(topChains) = 1

\* C15 (amended): in that case optimizeChains returns at most one result that
\* is a rotation or repetition of [A,B], and deduplicateChains returned
\* exactly one as soon as the merged results hold one; the other results
\* returned are infeasible sequences accepted by isChainWorthSimulating.
C15_OneTwoCycleResult ==
    (pc = "done" /\ OnlyTwoCycleFeasible) =>
        /\ Cardinality(TwoCyclesIn(topChains)) <= 1
        /\ Cardinality(TwoCyclesIn(unique)) = (IF TwoCyclesIn(results) = {} THEN 0 ELSE 1)
        /\ \A k \in 1..Len(topChains) :
               \/ k \in TwoCyclesIn(topChains)
               \/ /\ ~IsChainFeasible(topChains[k].powers, activationLatency)
                  /\ IsChainWorthSimulating(topChains[k].powers, activationLatency)

\* Such a search has returned: several rotations and repetitions of the
\* 2-cycle were simulated and kept, one was returned, with other results.
C15_Witness ==
    /\ pc = "done" /\ OnlyTwoCycleFeasible
    /\ Cardinality(TwoCyclesIn(results)) > 2
    /\ Cardinality(TwoCyclesIn(topChains)) = 1
    /\ Len(topChains) > 1

----------------------------------------------------------------------------
(* Properties of rotateChainToHighestDpa                                   *)

\* rotateChainToHighestDpa has returned: results[1] is what it was given,
\* topChains[1] what it returned (with the overlay's fields added later).
Rotated == pc \in {"overlay", "returned"}

\* arr read cyclically from its entry k + 1 on.
CyclicFrom(arr, k) == [i \in 1..Len(arr) |-> arr[((i - 1 + k) % Len(arr)) + 1]]

\* k (0-based) is the earliest index of the highest dpa of ps.
IsEarliestHighestDpa(ps, k) ==
    /\ \A j \in 1..Len(ps) : DpsLE(ps[j].dpa, ps[k + 1].dpa)
    /\ \A j \in 1..k : DpsLT(ps[j].dpa, ps[k + 1].dpa)

\* C16: rotateChainToHighestDpa returns the result with its action list (and
\* the timeline with it) rotated to begin at the earliest action of highest
\* dpa, and nothing else changed: the same per-action records and timeline
\* events, the same dps, totalDamage, totalTime, eps, avgDefianceBuff, length.
C16_RotationToHighestDpaOnly ==
    Rotated =>
        /\ \E k \in 0..(Len(results[1].powers) - 1) :
               /\ IsEarliestHighestDpa(results[1].powers, k)
               /\ topChains[1].powers = CyclicFrom(results[1].powers, k)
               /\ topChains[1].timeline = CyclicFrom(results[1].timeline, k)
        /\ \A x \in DOMAIN results[1] \ {"powers", "timeline"} :
               topChains[1][x] = results[1][x]
        /\ {"dps", "totalDamage", "totalTime", "eps", "avgDefianceBuff"}
               \subseteq DOMAIN results[1]

\* A chain of three actions was rotated, two of its actions sharing the
\* highest dpa, and the action list changed.
C16_Witness ==
    /\ Rotated
    /\ Len(results[1].powers) = 3
    /\ topChains[1].powers # results[1].powers
    /\ \E j, k \in 1..3 :
           /\ j # k
           /\ DpsEQ(results[1].powers[j].dpa, results[1].powers[k].dpa)
           /\ \A i \in 1..3 : DpsLE(results[1].powers[i].dpa, results[1].powers[j].dpa)

----------------------------------------------------------------------------
(* Properties of simulateChainWithBuffOverlay                              *)

\* simulateChainWithBuffOverlay has returned and optimizeChains has copied
\* dpsWithBuffs, buffUptime and avgBuffMult on the chain.
OverlayReturned == pc = "returned" /\ Len(buffPowers) > 0

\* C17: the buffUptime simulateChainWithBuffOverlay returns lies in [0, 1]:
\* at every point of the loop the time accumulated with a click buff active
\* is at most the time elapsed since the measurement began (and 0 before).
C17_BuffUptimeWithinUnit ==
    /\ pc = "overlay" =>
           /\ ov.clickBuffActiveTime >= 0
           /\ IF ov.measureStartActual >= 0
              THEN ov.clickBuffActiveTime <= ov.currentTime - ov.measureStartActual
              ELSE ov.clickBuffActiveTime = 0
    /\ OverlayReturned =>
           /\ topChains[1].buffUptime[2] > 0
           /\ topChains[1].buffUptime[1] >= 0
           /\ topChains[1].buffUptime[1] <= topChains[1].buffUptime[2]

\* An overlay run has returned an uptime strictly between 0 and 1, its
\* measurement having begun later than the nominal start of the window.
C17_Witness ==
    /\ OverlayReturned
    /\ topChains[1].buffUptime[1] > 0
    /\ topChains[1].buffUptime[1] < topChains[1].buffUptime[2]
    /\ ov.measureStartActual > MeasureStartTime(buffPowers)

\* Every overlay action supplied has a bonus fraction above 0.
AllBonusesPositive == \A k \in 1..Len(buffPowers) : buffPowers[k].buffScale > 0

\* C18 (as claimed): whenever every overlay action has a bonus fraction above
\* 0, the dpsWithBuffs simulateChainWithBuffOverlay returns is at least the
\* base dps of the chain result.
C18_OverlayNeverBelowBase ==
    (OverlayReturned /\ AllBonusesPositive) =>
        DpsLE(topChains[1].dps, topChains[1].buffedDps)

\* The attack the overlay loop fires next.
NextOverlayAttack ==
    topChains[1].powers[(ov.chainIndex % Len(topChains[1].powers)) + 1]

\* One step of the overlay loop, for C18: the measurement never begins before
\* the nominal start of the window; an attack fired in a measured pass adds
\* at least its base value to measureDamage, any other step adds nothing; and
\* what is returned is measureDamage over the measured elapsed time.
OverlayStepAddsAtLeastBase ==
    (pc = "overlay" /\ AllBonusesPositive) =>
        /\ ov.measureStartActual >= 0 =>
               ov.measureStartActual >= MeasureStartTime(buffPowers)
        /\ IF ov.at = "attack" /\ ov.measureStartActual >= 0
           THEN ov'.measureDamage >= ov.measureDamage + NextOverlayAttack.baseDamage * 1000
           ELSE ov'.measureDamage = ov.measureDamage
        /\ pc' = "returned" =>
               /\ topChains'[1].buffedDps[1] = ov.measureDamage
               /\ topChains'[1].buffedDps[2] =
                      ov.currentTime - (IF ov.measureStartActual >= 0
                                        THEN ov.measureStartActual
                                        ELSE MeasureStartTime(buffPowers))

\* C18 (amended): whenever every overlay action has a bonus fraction above 0,
\* every activation simulateChainWithBuffOverlay measures has a realized value
\* of at least its base value, and dpsWithBuffs is the sum of the measured
\* realized values over the measured elapsed time, the time of the overlay
\* actions included.
C18_MeasuredValueAtLeastBase == [][OverlayStepAddsAtLeastBase]_vars

\* The overlay run of a one-action chain has returned a dpsWithBuffs above 0
\* and below the base dps, every overlay action having a bonus above 0.
C18_Witness ==
    /\ OverlayReturned /\ AllBonusesPositive
    /\ Len(chain) = 1
    /\ topChains[1].buffedDps[1] > 0
    /\ DpsLT(topChains[1].buffedDps, topChains[1].dps)

\* arcanaTime has been called on d and has returned.
ArcanaTimeReturned == callee = "arcanaTime" /\ Len(returned) = 1

\* The least whole number of ticks that covers d; d is above 0.
TicksCovering(d) == CHOOSE n \in 1..d : n * TICK >= d /\ (n - 1) * TICK < d

\* C20: arcanaTime(d) returns the tick T = 0.132 for every d <= 0 and
\* (ceil(d / T) + 1) * T for every d > 0; arcanaTime(1.0) = 1.188 and
\* arcanaTime(1.67) = 1.848 (in milliseconds, T = 132).
C20_ArcanaTimeQuantizes ==
    ArcanaTimeReturned =>
        /\ callArgs[1] <= 0 => returned[1] = 132
        /\ callArgs[1] > 0 => returned[1] = (TicksCovering(callArgs[1]) + 1) * 132
        /\ callArgs[1] = 1000 => returned[1] = 1188
        /\ callArgs[1] = 1670 => returned[1] = 1848

\* arcanaTime(1.67) has returned.
C20_Witness == ArcanaTimeReturned /\ callArgs[1] = 1670 /\ returned[1] = 1848

\* optimizeChains has returned from the search over Flares and FireBlast.
ScenarioSearched == pc = "done" /\ SlugsOf(powers) = <<"Flares", "FireBlast">>

\* baseValue / duration of one action, as a pair comparable with a dps.
SoloDpa(p) == <<p.totalDamage * 1000, p.arcanaTime>>

\* C19 (as claimed): for Flares and FireBlast, the search returns a non-empty
\* ranked list whose top result's dps is strictly greater than both Flares'
\* and FireBlast's solo baseValue / duration.
C19_TopBeatsSoloDpa ==
    ScenarioSearched =>
        /\ Len(topChains) > 0
        /\ \A k \in 1..Len(powers) : DpsLT(SoloDpa(powers[k]), topChains[1].dps)

\* C19 (amended): for Flares and FireBlast, the search returns a non-empty
\* list ranked by non-increasing dps whose top result is the chain Flares,
\* Flares, FireBlast, repeating every 8 s, the recharge of FireBlast; its
\* dps lies between 34 and 35, above the 27.67 the three base values give
\* over 8 s and below both solo baseValue / duration (53.19 and 51.41), as is
\* the dps of every chain simulated.
C19_TopIsBelowSoloDpa ==
    ScenarioSearched =>
        /\ Len(topChains) > 0
        /\ \A i \in 1..(Len(topChains) - 1) :
               DpsLE(topChains[i + 1].dps, topChains[i].dps)
        /\ SlugsOf(topChains[1].powers) = <<"Flares", "Flares", "FireBlast">>
        /\ topChains[1].totalTime = 8000
        /\ DpsLT(<<3400, 1>>, topChains[1].dps)
        /\ DpsLT(topChains[1].dps, <<3500, 1>>)
        /\ DpsLT(<<(2 * 6319 + 9500) * 1000, 8000>>, topChains[1].dps)
        /\ \A i \in 1..Len(results) : \A k \in 1..Len(powers) :
               DpsLT(results[i].dps, SoloDpa(powers[k]))

\* The search over Flares and FireBlast has returned its ranked list, the top
\* result below both solo values.
C19_Witness ==
    /\ ScenarioSearched
    /\ Len(topChains) > 0
    /\ \A k \in 1..Len(powers) : DpsLT(topChains[1].dps, SoloDpa(powers[k]))

\* simulateChainWithDefiance has run its four passes over the chain.
SimulationOver == pc = "simulate" /\ SimFinished(chain, sim)

RECURSIVE StepsFrom(_, _, _, _)
\* The locals after n further activations from the locals s.
StepsFrom(c, latency, s, n) ==
    IF n = 0 THEN s ELSE StepsFrom(c, latency, SimStep(c, latency, s), n - 1)

\* The activations of the chain's pass number k (from 0), out of a trace.
PassOf(trace, k) == SubSeq(trace, k * Len(chain) + 1, (k + 1) * Len(chain))

\* Two passes take the same time and induce the same waits.
SameTiming(p, q) ==
    /\ p[Len(p)].after - p[1].before = q[Len(q)].after - q[1].before
    /\ \A i \in 1..Len(p) : p[i].waitBefore = q[i].waitBefore

\* Two passes apply the same multiplier to each action.
SameMultipliers(p, q) == \A i \in 1..Len(p) : p[i].defianceMult = q[i].defianceMult

\* C24: after the 3 warm-up passes the simulation is in its steady state: one
\* further pass after the measurement pass would have the elapsed time, the
\* induced waits and the per-action multipliers of the measurement pass.
C24_FurtherPassRepeatsMeasurement ==
    SimulationOver =>
        \A further \in {StepsFrom(chain, activationLatency, sim, Len(chain)).trace} :
            /\ SameTiming(PassOf(further, TotalCycles), PassOf(further, TotalCycles - 1))
            /\ SameMultipliers(PassOf(further, TotalCycles), PassOf(further, TotalCycles - 1))

\* arr rotated to begin at its entry k + 1.
RotatedBy(arr, k) == [i \in 1..Len(arr) |-> arr[((i - 1 + k) % Len(arr)) + 1]]

\* C25: the dps simulateChainWithDefiance gives a chain is the dps it gives
\* every cyclic rotation of the chain.
C25_DpsInvariantUnderRotation ==
    SimulationOver =>
        \A k \in 1..(Len(chain) - 1) :
            DpsEQ(SimulateChainWithDefiance(RotatedBy(chain, k), activationLatency).dps,
                  SimResult(sim).dps)

\* The effectiveRecharge of the action slug among the actions list.
RechargeOf(list, slug) ==
    list[CHOOSE k \in 1..Len(list) : list[k].slug = slug].effectiveRecharge

\* The overlay loop has just fired an action of the given kind.
JustFired(kind) == pc = "overlay" /\ ov.fired.kind = kind

\* No action of the overlay loop fires before its cooldown entry.
NeverFiredBeforeReady ==
    (JustFired("buff") \/ JustFired("attack")) => ov.fired.readyAt <= ov.fired.at

\* An attack activated at time t is next usable at t + effectiveRecharge.
AttackCooldownFromActivation ==
    JustFired("attack") =>
        ov.attackCooldowns[ov.fired.slug] =
            ov.fired.at + RechargeOf(topChains[1].powers, ov.fired.slug)

\* C26: in the overlay simulator every action, overlay actions included, is
\* next usable exactly effectiveRecharge after the moment it activates (for
\* an overlay action activated at t, before its cast time is added, the
\* cooldown entry is t + effectiveRecharge), and no action fires while its
\* cooldown entry is later than the current time.
C26_CooldownFromActivation ==
    /\ NeverFiredBeforeReady
    /\ AttackCooldownFromActivation
    /\ JustFired("buff") =>
           ov.buffCooldowns[ov.fired.slug] =
               ov.fired.at + RechargeOf(buffPowers, ov.fired.slug)

\* The chain has been simulated although isChainFeasible rejects it.
RejectedButSimulated == SimulationOver /\ ~filter.feasible

C28_FeasibleImpliesWorth ==
    pc # "classify" =>
        /\ filter.feasible => filter.worth
        /\ (pc # "discarded") = filter.worth
        /\ Cardinality({chain[k].slug : k \in 1..Len(chain)}) = Len(chain) =>
               pc # "discarded"

\* A chain with a repeated action has passed both filters.
C28_Witness ==
    /\ pc = "simulate" /\ filter.feasible /\ filter.worth
    /\ Cardinality({chain[k].slug : k \in 1..Len(chain)}) < Len(chain)

\* One step of the overlay loop, for C29: the simulated time never decreases,
\* the step that fires the chain action advances it by at least the action's
\* duration and moves to the next chain action, no other step fires a chain
\* action, and the loop is left only once the time has reached simDuration.
OverlayStepAdvances ==
    pc = "overlay" =>
        /\ ov'.currentTime >= ov.currentTime
        /\ IF ov.at = "attack"
           THEN /\ ov'.chainIndex = ov.chainIndex + 1
                /\ ov'.currentTime >= ov.currentTime + NextOverlayAttack.arcanaTime
                /\ ov'.currentTime > ov.currentTime
                /\ ov'.at = "head"
           ELSE ov'.chainIndex = ov.chainIndex
        /\ (ov.at = "head" /\ ov'.at = "done") => ov.currentTime >= SimDuration(buffPowers)
        /\ (ov.at = "head" /\ ov'.at # "done") => ov.currentTime < SimDuration(buffPowers)

\* C29: simulateChainWithBuffOverlay always terminates: each iteration of its
\* step loop fires exactly one chain action and strictly advances the
\* simulated time, which never decreases, so the time reaches simDuration and
\* the loop, once entered, is left.
C29_OverlayTerminates ==
    /\ [][OverlayStepAdvances]_vars
    /\ (pc = "overlay") ~> (pc = "returned")

\* The overlay loop has been left after more than one iteration, the time at
\* or past simDuration.
C29_Witness ==
    /\ OverlayReturned
    /\ ov.at = "done"
    /\ ov.chainIndex > 1
    /\ ov.currentTime >= SimDuration(buffPowers)

\* The simulation of one chain under the scheduling of the code: a running
\* function takes its next step.
FairSimSpec == SimSpec /\ WF_vars(SimNext)

\* Every result searchChains has pushed and optimizeChains holds or returns.
RankedResults ==
    {lengthResults[i] : i \in 1..Len(lengthResults)}
        \cup {results[i] : i \in 1..Len(results)}
        \cup {topChains[i] : i \in 1..Len(topChains)}

----------------------------------------------------------------------------
(* The answers of the worker and the run button                            *)

Workers == 1..Len(workers)

Finished(w) == workers[w].at = "finished"

FinalMessage(w) == workers[w].sent[Len(workers[w].sent)]

\* C21: a request with an empty action list is answered with an error
\* outcome (InvalidInput) and never with a result; no candidate is enumerated
\* for it, so no progress is reported, and its final message is an error,
\* which tells it apart from a search that ran and found nothing.
C21_EmptyInputIsAnError ==
    \A w \in Workers :
        workers[w].request.powers = <<>> =>
            /\ \A i \in 1..Len(workers[w].sent) :
                   workers[w].sent[i].type \notin {"progress", "result"}
            /\ Finished(w) => FinalMessage(w).type = "error"

LiveWorkers == {w \in Workers : ~workers[w].terminated /\ workers[w].at # "crashed"}

\* pass and progress messages first, then exactly one result or error.
AnswerWellFormed(w) ==
    \A i \in 1..Len(workers[w].sent) :
        workers[w].sent[i].type \in {"result", "error"}
            <=> (i = Len(workers[w].sent) /\ Finished(w))

ButtonRestored == ~runBtn.disabled /\ state.worker = 0

\* C30: every run started by runOptimizer eventually re-enables the run
\* button and leaves state.worker null, whether the worker answers with a
\* result or an error, crashes, or the run fails before the worker is
\* started; the worker answers with pass and progress messages followed by
\* exactly one result or error; at most one worker is live at any time.
C30_RunAlwaysRestoresButton ==
    /\ [](Cardinality(LiveWorkers) <= 1)
    /\ [](\A w \in Workers : AnswerWellFormed(w))
    /\ (runBtn.disabled ~> ButtonRestored)

====
